---- MODULE Spec2Model ----
(***************************************************************************)
(* A model of the DARC decoder pipeline of soltia48/darc-modem:            *)
(*   - the L2 frame decoder  (src/darc/l2_frame_decoder.py),               *)
(*   - the L2 block decoder  (src/darc/l2_block_decoder.py),               *)
(*   - the L4 data-group decoder (src/darc/l4_data_group_decoder.py),      *)
(*   - the pipeline that chains them (src/decoder_core.py),                *)
(*   - the store the map server shares between threads                     *)
(*     (src/parking_store.py).                                             *)
(* Each decoder is a state machine of its own and has a specification of   *)
(* its own (SpecFrame, SpecBlock, SpecBic, SpecL4, SpecPipeline,           *)
(* SpecStore); the variables of the objects a specification does not       *)
(* drive stay at their initial values.                                     *)
(***************************************************************************)
EXTENDS Integers, Sequences, FiniteSets, TLC

VARIABLES
    block_buffer,   \* L2FrameDecoder._block_buffer
    frame_result,   \* what the last push_block call returned (or raised)
    pushed_block,   \* the argument of the last push_block call
    prev_size,      \* history: get_buffer_size() before the last push_block call
    run_len,        \* history: blocks accepted since the buffer was last empty
    frame_column,   \* history: the worst column of the frame the last call completed
    frame_rows,     \* history: the pushed blocks the rows of that frame were cut from
    current_bic,    \* L2BlockDecoder.__current_bic
    data_buffer,    \* L2BlockDecoder.__data_buffer
    lfsr_state,     \* the register of L2BlockDecoder.__lfsr
    allowable_bic_errors,   \* L2BlockDecoder.allowable_bic_errors
    block_result,   \* what the last push_bit call returned (or raised)
    last_input,     \* the argument of the last push_bit call
    noise,          \* the bits pushed so far before the first transmitted block
    tx_count,       \* transmitted blocks begun so far
    tx_bic,         \* the BIC of the transmitted block
    tx_word,        \* the codeword of the transmitted block
    tx_flip,        \* the payload bit of the transmitted block hit on the channel
    tx_pos,         \* bits of the transmitted block pushed so far
    tx_sync,        \* history: no BIC was detected when a BIC bit was pushed
    bic_detected,   \* what a call of __detected_bic returned, <<>> before it
    group_buffers,  \* L4DataGroupDecoder._group_buffers
    data_groups,    \* what the last push_data_packets call returned
    packet_log,     \* history: the last call packet by packet
    call_input,     \* the argument of a function called on its own
    call_result,    \* what that call returned, <<>> before it
    heap,           \* the decoder objects that exist, by class
    pipelines,      \* the DecoderPipeline instances: the objects their fields name
    pipe_sent,      \* bits of its own stream pushed into each pipeline so far
    pipe_result,    \* what iterating the last push_bit of each pipeline gave
    pipe_seen,      \* history: the decoders of each pipeline after its own last call
    store_data,     \* ParkingStore._data, in insertion order
    store_lock,     \* the thread holding ParkingStore._lock, 0 for none
    threads         \* the position, the locals and the history of each thread

frameVars == <<block_buffer, frame_result, pushed_block, prev_size, run_len, frame_column,
               frame_rows>>

decoderVars == <<current_bic, data_buffer, lfsr_state, allowable_bic_errors>>

blockVars == <<decoderVars, block_result, last_input, noise, tx_count,
               tx_bic, tx_word, tx_flip, tx_pos, tx_sync, bic_detected>>

l4Vars == <<group_buffers, data_groups, packet_log>>

callVars == <<call_input, call_result>>

pipeVars == <<heap, pipelines, pipe_sent, pipe_result, pipe_seen>>

storeVars == <<store_data, store_lock, threads>>

vars == <<frameVars, blockVars, l4Vars, callVars, pipeVars, storeVars>>

-----------------------------------------------------------------------------
(* L2BlockIdentificationCode, src/darc/l2_data.py *)

UNDEFINED == 0
BIC_1 == 4958       \* 0x135E
BIC_2 == 29862      \* 0x74A6
BIC_3 == 42897      \* 0xA791
BIC_4 == 51317      \* 0xC875

-----------------------------------------------------------------------------
(* L2 frame decoder, src/darc/l2_frame_decoder.py                          *)
(* A block is modelled by its class and its block_id; the 190 bits it      *)
(* carries are not part of this decoder's control flow, except that        *)
(* L2Frame.from_block_buffer raises when a column of the frame cannot be   *)
(* corrected: that outcome is the input columns_ok of push_block.          *)

FRAME_SIZE == 272
BIC1_START == 1
BIC1_END == 13
BIC2_START == 137
BIC2_END == 149
L2_DATA_BLOCK_SIZE == 190

NoFrame == [status |-> "none", blocks |-> <<>>]
RaisedFrame == [status |-> "raise", blocks |-> <<>>]

InformationBlock(bic) == [kind |-> "information", block_id |-> bic]
ParityBlock(bic) == [kind |-> "parity", block_id |-> bic]

get_expected_bic_same_phase(position) ==
    IF BIC1_START <= position /\ position <= BIC1_END THEN BIC_1
    ELSE IF BIC2_START <= position /\ position <= BIC2_END THEN BIC_2
    ELSE IF 14 <= position /\ position <= 136
         THEN (IF position % 3 = 1 THEN BIC_4 ELSE BIC_3)
    ELSE IF 150 <= position /\ position <= FRAME_SIZE
         THEN (IF position % 3 = 1 THEN BIC_4 ELSE BIC_3)
    ELSE UNDEFINED

get_expected_bic(position) ==
    IF BIC1_START <= position /\ position <= BIC1_END THEN BIC_1
    ELSE IF BIC2_START <= position /\ position <= BIC2_END THEN BIC_2
    ELSE IF 14 <= position /\ position <= 136
         THEN (IF position % 3 = 1 THEN BIC_4 ELSE BIC_3)
    ELSE IF 150 <= position /\ position <= FRAME_SIZE
         THEN (IF position % 3 = 2 THEN BIC_4 ELSE BIC_3)
    ELSE UNDEFINED

validate_sequence(position, block) ==
    LET expected_bic == get_expected_bic(position)
    IN  IF expected_bic = UNDEFINED THEN FALSE
        ELSE IF block.block_id # expected_bic THEN FALSE
        ELSE TRUE

IsInformation(b) == b.kind = "information"
IsParity(b) == b.kind = "parity"

\* L2Frame.from_block_buffer: the information blocks, then the parity
\* blocks; every column is corrected (raise_error defaults to True, so an
\* uncorrectable column raises); the first 190 rows become the frame.
from_block_buffer(buffer, columns_ok) ==
    LET info_blocks == SelectSeq(buffer, IsInformation)
        parity_blocks == SelectSeq(buffer, IsParity)
        blocks == info_blocks \o parity_blocks
    IN  IF Len(buffer) # FRAME_SIZE THEN RaisedFrame
        ELSE IF ~columns_ok THEN RaisedFrame
        ELSE [status |-> "frame",
              blocks |-> [i \in 1..L2_DATA_BLOCK_SIZE |->
                             InformationBlock(blocks[i].block_id)]]

\* the places in the buffer of the blocks of one class, in push order
places_of(buffer, kind) ==
    LET OfKind(place) == buffer[place].kind = kind
    IN  SelectSeq([place \in 1..Len(buffer) |-> place], OfKind)

\* the parity blocks put before the information blocks
block_rows_parity_first(buffer) ==
    SubSeq(places_of(buffer, "parity") \o places_of(buffer, "information"),
           1, L2_DATA_BLOCK_SIZE)

\* blocks = [*info_blocks, *parity_blocks]; blocks[i] for i in
\* range(BLOCK_SIZE): the place in the buffer of the block each row of
\* the frame is made from
block_rows(buffer) ==
    SubSeq(places_of(buffer, "information") \o places_of(buffer, "parity"),
           1, L2_DATA_BLOCK_SIZE)

\* reset(): self._block_buffer.clear()
frame_reset(buffer) == <<>>

push_block_keep_buffer(buffer, block, columns_ok) ==
    LET current_position == Len(buffer) + 1
    IN  IF ~validate_sequence(current_position, block)
        THEN [block_buffer |-> frame_reset(buffer), ret |-> NoFrame]
        ELSE LET appended == Append(buffer, block)
             IN  IF current_position = FRAME_SIZE
                 THEN [block_buffer |-> appended,
                       ret |-> from_block_buffer(appended, columns_ok)]
                 ELSE [block_buffer |-> appended, ret |-> NoFrame]

push_block_keep_on_mismatch(buffer, block, columns_ok) ==
    LET current_position == Len(buffer) + 1
    IN  IF ~validate_sequence(current_position, block)
        THEN [block_buffer |-> buffer, ret |-> NoFrame]
        ELSE LET appended == Append(buffer, block)
             IN  IF current_position = FRAME_SIZE
                 THEN [block_buffer |-> frame_reset(appended),
                       ret |-> from_block_buffer(appended, columns_ok)]
                 ELSE [block_buffer |-> appended, ret |-> NoFrame]

\* push_block: the new buffer and the value returned ("raise": the
\* exception of from_block_buffer leaves through the try/finally, which
\* resets the buffer all the same).
push_block(buffer, block, columns_ok) ==
    LET current_position == Len(buffer) + 1
    IN  IF ~validate_sequence(current_position, block)
        THEN [block_buffer |-> frame_reset(buffer), ret |-> NoFrame]
        ELSE LET appended == Append(buffer, block)
             IN  IF current_position = FRAME_SIZE
                 THEN [block_buffer |-> frame_reset(appended),
                       ret |-> from_block_buffer(appended, columns_ok)]
                 ELSE [block_buffer |-> appended, ret |-> NoFrame]

get_buffer_size == Len(block_buffer)

-----------------------------------------------------------------------------
(* Bit vectors.  Python integers wider than TLC's are sequences of bits,   *)
(* most significant bit first; a bitstring.Bits value is the sequence of   *)
(* its bits in stream order.  (A function constructor followed by          *)
(* \o <<>> is the same sequence, held as a tuple.)                         *)

RECURSIVE ForRange(_, _, _, _)
\* for i in range(lo, hi + 1): acc = Body(acc, i).  The range is folded by
\* halves, and the guard on the first half has its value computed before
\* the second half is entered (an operator's arguments are evaluated on
\* demand), which keeps the evaluation shallow.
ForRange(Body(_, _), acc, lo, hi) ==
    IF lo > hi THEN acc
    ELSE IF lo = hi THEN Body(acc, lo)
    ELSE LET mid == (lo + hi) \div 2
             first_half == ForRange(Body, acc, lo, mid)
         IN  IF first_half = first_half
             THEN ForRange(Body, first_half, mid + 1, hi)
             ELSE acc

Bit(x, i) == (x \div (2 ^ i)) % 2

\* Bits(uint=x, length=w) for x < 2^31
BitsOfInt(x, w) == [i \in 1..w |-> Bit(x, w - i)] \o <<>>

\* Bits.uint
IntOfBits(b) ==
    LET Body(acc, i) == 2 * acc + b[i]
    IN  ForRange(Body, 0, 1, Len(b))

Zeros(w) == [i \in 1..w |-> 0] \o <<>>

\* a ^ b on vectors of the same length
XorBits(a, b) == [i \in 1..Len(a) |-> (a[i] + b[i]) % 2] \o <<>>

\* (a << n) & mask on a vector of fixed width
ShiftLeft(a, n) == SubSeq(a, n + 1, Len(a)) \o Zeros(n)

\* the bits of a hexadecimal literal given by its digits
HexBits(digits) ==
    LET Body(acc, i) == acc \o BitsOfInt(digits[i], 4)
    IN  ForRange(Body, <<>>, 1, Len(digits))

\* message.bytes: the i-th byte (1-based) of a bit vector, as 8 bits
ByteAt(message, i) == SubSeq(message, 8 * (i - 1) + 1, 8 * i)

-----------------------------------------------------------------------------
(* CRC-82/DARC, src/darc/crc_82_darc.py *)

CRC82_WIDTH == 82

\* CRC_POLYNOMIAL = 0x0308C0111011401440411, as 82 bits
CRC82_POLYNOMIAL ==
    SubSeq(HexBits(<<0, 3, 0, 8, 12, 0, 1, 1, 1, 0, 1, 1, 4, 0, 1, 4, 4, 0, 4, 1, 1>>),
           3, 84)

\* one round of: value = ((value << 1) ^ POLY) if (value & MSB) else (value << 1)
CrcShift(polynomial, value) ==
    IF value[1] = 1 THEN XorBits(ShiftLeft(value, 1), polynomial)
    ELSE ShiftLeft(value, 1)

\* for _ in range(n): one round
CrcShiftTimes(polynomial, value, n) ==
    LET Body(acc, i) == CrcShift(polynomial, acc)
    IN  ForRange(Body, value, 1, n)

\* _generate_crc_82_darc_table: table[i] from value = i << 74; the entry of
\* index i is element i + 1 of the sequence
CRC_82_DARC_TABLE ==
    [n \in 1..256 |->
        CrcShiftTimes(CRC82_POLYNOMIAL,
                      BitsOfInt(n - 1, 8) \o Zeros(CRC82_WIDTH - 8), 8)] \o <<>>

\* _crc_82_darc_table_driven: for byte in message
crc_82_darc_table_driven(message) ==
    LET Body(crc, i) ==
            LET table_index ==
                    IntOfBits(XorBits(SubSeq(crc, 1, 8), ByteAt(message, i)))
            IN  XorBits(CRC_82_DARC_TABLE[table_index + 1], ShiftLeft(crc, 8))
    IN  ForRange(Body, Zeros(CRC82_WIDTH), 1, Len(message) \div 8)

\* the inner loop of _crc_82_darc_bit_by_bit over the bits i of one byte;
\* once the bit budget is used up (break) nothing more is done
crc_82_byte_bits(state, value) ==
    LET Body(acc, i) ==
            IF acc.bits <= 0 THEN acc
            ELSE LET bit == (acc.crc[1] + value[i + 1]) % 2
                 IN  [crc |-> IF bit = 1
                              THEN XorBits(ShiftLeft(acc.crc, 1), CRC82_POLYNOMIAL)
                              ELSE ShiftLeft(acc.crc, 1),
                      bits |-> acc.bits - 1]
    IN  ForRange(Body, state, 0, 7)

\* _crc_82_darc_bit_by_bit: for byte in message
crc_82_darc_bit_by_bit(message, bits) ==
    LET Body(acc, n) == crc_82_byte_bits(acc, ByteAt(message, n))
    IN  ForRange(Body, [crc |-> Zeros(CRC82_WIDTH), bits |-> bits],
                 1, Len(message) \div 8).crc

\* crc_82_darc(message, bits=bits)
crc_82_darc(message, bits) ==
    IF bits % 8 = 0 THEN crc_82_darc_table_driven(message)
    ELSE crc_82_darc_bit_by_bit(message, bits)

-----------------------------------------------------------------------------
(* DSCC (272,190) correction, src/darc/crc_82_darc.py *)

DSCC_LENGTH == 272
DSCC_ERROR_WIDTH == 8

\* error_base | (j << 1): the burst patterns of width i, in the order of
\* the loop over j
error_with_counter(i, j) ==
    (IF i > 1 THEN 2 ^ (i - 1) + 1 ELSE 1) + 2 * j

counter_max(i) == IF i > 2 THEN 2 ^ (i - 2) ELSE 1

\* Bits(uint=error << k, length=272)
error_vector(error, k) ==
    [n \in 1..DSCC_LENGTH |->
        IF DSCC_LENGTH - n - k \in 0..7 THEN Bit(error, DSCC_LENGTH - n - k)
        ELSE 0] \o <<>>

RECURSIVE SyndromeRun(_, _)
\* The syndromes of error << k for n consecutive k, the first one given.
\* error << (k + 1) is error << k with one leading zero bit less and one
\* trailing zero bit more; a leading zero bit leaves the zero crc as it is
\* and a trailing zero bit is one round of the crc register, so the next
\* syndrome is CrcShift of this one.
SyndromeRun(first, n) ==
    IF n = 1 THEN <<first>>
    ELSE LET h == n \div 2
             left == SyndromeRun(first, h)
         IN  left \o SyndromeRun(CrcShift(CRC82_POLYNOMIAL, left[h]), n - h)

\* _generate_bitflip_syndrome_map(272, 8): for every width i and pattern j
\* the syndromes of the shifts k in range(length - i); row (i, j) holds them
\* in the order of k (element k + 1 for shift k)
BITFLIP_WIDTHS == [i \in 1..DSCC_ERROR_WIDTH |->
                     [j1 \in 1..counter_max(i) |->
                        SyndromeRun(
                            crc_82_darc(error_vector(error_with_counter(i, j1 - 1), 0),
                                        DSCC_LENGTH),
                            DSCC_LENGTH - i)] \o <<>>] \o <<>>

\* PARITY_BITFLIP_SYNDROME_MAP_DSCC_272_190[syndrome]: the entries with
\* this key, as <<i, j, k>>
syndrome_map_hits(syndrome) ==
    UNION {UNION {{<<i, j, k>> :
                     k \in {n \in 0..(DSCC_LENGTH - i - 1) :
                              BITFLIP_WIDTHS[i][j + 1][n + 1] = syndrome}} :
                  j \in 0..(counter_max(i) - 1)} :
           i \in 1..DSCC_ERROR_WIDTH}

\* the error vector of the entry <<i, j, k>>
hit_error_vector(e) == error_vector(error_with_counter(e[1], e[2]), e[3])

\* a later assignment to the same key replaces an earlier one
LastHit(hits) ==
    CHOOSE e \in hits : \A f \in hits :
        \/ f[1] < e[1]
        \/ f[1] = e[1] /\ f[2] < e[2]
        \/ f[1] = e[1] /\ f[2] = e[2] /\ f[3] <= e[3]

\* the end of correct_error_dscc_272_190, the entries of the syndrome
\* looked up: the error vector is XORed into the buffer, or the miss is
\* reported as the caller chose
correct_with_hits(buffer, hits, raise_error) ==
    IF hits # {}
    THEN [result |-> "ok",
          buffer |-> XorBits(buffer, hit_error_vector(LastHit(hits)))]
    ELSE IF raise_error
    THEN [result |-> "raise", buffer |-> buffer]
    ELSE [result |-> "none", buffer |-> buffer]

\* correct_error_dscc_272_190 once the syndrome is computed
correct_with_syndrome(buffer, syndrome, raise_error) ==
    IF syndrome = Zeros(CRC82_WIDTH) THEN [result |-> "ok", buffer |-> buffer]
    ELSE correct_with_hits(buffer, syndrome_map_hits(syndrome), raise_error)

\* correct_error_dscc_272_190(buffer, raise_error): [result, buffer] with
\* result "ok" (a buffer is returned), "none" (None is returned) or "raise"
correct_error_dscc_272_190(buffer, raise_error) ==
    IF Len(buffer) # 272 THEN [result |-> "raise", buffer |-> buffer]
    ELSE correct_with_syndrome(buffer, crc_82_darc(buffer, 272), raise_error)

-----------------------------------------------------------------------------
(* CRC-14/DARC, src/darc/crc_14_darc.py *)

CRC14_WIDTH == 14

\* CRC_POLYNOMIAL = 0x0805, as 14 bits
CRC14_POLYNOMIAL == BitsOfInt(2053, CRC14_WIDTH)

\* _generate_crc_14_darc_table: table[i] from value = i << 6; the entry of
\* index i is element i + 1 of the sequence
CRC_14_DARC_TABLE ==
    [n \in 1..256 |->
        CrcShiftTimes(CRC14_POLYNOMIAL,
                      BitsOfInt(n - 1, 8) \o Zeros(CRC14_WIDTH - 8), 8)] \o <<>>

\* _crc_14_darc_table_driven: for value in data
crc_14_darc_table_driven(message) ==
    LET Body(crc, i) ==
            LET table_index ==
                    IntOfBits(XorBits(SubSeq(crc, 1, 8), ByteAt(message, i)))
            IN  XorBits(CRC_14_DARC_TABLE[table_index + 1], ShiftLeft(crc, 8))
    IN  ForRange(Body, Zeros(CRC14_WIDTH), 1, Len(message) \div 8)

\* the inner loop of _crc_14_darc_bit_by_bit over the bits i of one byte
crc_14_byte_bits(state, value) ==
    LET Body(acc, i) ==
            IF acc.bits <= 0 THEN acc
            ELSE LET bit == (acc.crc[1] + value[i + 1]) % 2
                 IN  [crc |-> IF bit = 1
                              THEN XorBits(ShiftLeft(acc.crc, 1), CRC14_POLYNOMIAL)
                              ELSE ShiftLeft(acc.crc, 1),
                      bits |-> acc.bits - 1]
    IN  ForRange(Body, state, 0, 7)

\* _crc_14_darc_bit_by_bit: for value in data
crc_14_darc_bit_by_bit(message, bits) ==
    LET Body(acc, n) == crc_14_byte_bits(acc, ByteAt(message, n))
    IN  ForRange(Body, [crc |-> Zeros(CRC14_WIDTH), bits |-> bits],
                 1, Len(message) \div 8).crc

\* crc_14_darc(message, bits=bits), as a number
crc_14_darc(message, bits) ==
    IntOfBits(IF bits % 8 = 0 THEN crc_14_darc_table_driven(message)
              ELSE crc_14_darc_bit_by_bit(message, bits))

-----------------------------------------------------------------------------
(* L2 blocks, src/darc/l2_data.py *)

PACKET_SIZE == 176
CRC_SIZE == 14
PARITY_SIZE == 190

NoBlock ==
    [kind |-> "none", block_id |-> UNDEFINED, data_packet |-> <<>>, crc |-> 0,
     vertical_parity |-> <<>>]

RaisedBlock ==
    [kind |-> "raise", block_id |-> UNDEFINED, data_packet |-> <<>>, crc |-> 0,
     vertical_parity |-> <<>>]

\* if corrected is not None: buffer = corrected
corrected_or_same(buffer, corrected) ==
    IF corrected.result = "ok" THEN corrected.buffer ELSE buffer

\* the buffer after the correction attempt of from_buffer
buffer_after_correction(buffer) ==
    IF Len(buffer) = FRAME_SIZE
    THEN corrected_or_same(buffer, correct_error_dscc_272_190(buffer, FALSE))
    ELSE buffer

\* cls(block_id, buffer[0:PACKET_SIZE], buffer[PACKET_SIZE:BLOCK_SIZE].uint)
L2InformationBlock(block_id, buffer) ==
    [kind |-> "information", block_id |-> block_id,
     data_packet |-> SubSeq(buffer, 1, PACKET_SIZE),
     crc |-> IntOfBits(SubSeq(buffer, PACKET_SIZE + 1, L2_DATA_BLOCK_SIZE)),
     vertical_parity |-> <<>>]

\* L2InformationBlock.from_buffer(block_id, buffer)
L2InformationBlock_from_buffer(block_id, buffer) ==
    IF Len(buffer) \notin {L2_DATA_BLOCK_SIZE, FRAME_SIZE} THEN RaisedBlock
    ELSE L2InformationBlock(block_id, buffer_after_correction(buffer))

\* cls(block_id, buffer[0:PARITY_SIZE])
L2ParityBlock(block_id, buffer) ==
    [kind |-> "parity", block_id |-> block_id, data_packet |-> <<>>, crc |-> 0,
     vertical_parity |-> SubSeq(buffer, 1, PARITY_SIZE)]

\* L2ParityBlock.from_buffer(block_id, buffer)
L2ParityBlock_from_buffer(block_id, buffer) ==
    IF Len(buffer) \notin {L2_DATA_BLOCK_SIZE, FRAME_SIZE} THEN RaisedBlock
    ELSE L2ParityBlock(block_id, buffer_after_correction(buffer))

\* L2InformationBlock.is_crc_valid
is_crc_valid(block) == crc_14_darc(block.data_packet, PACKET_SIZE) = block.crc

\* the integrity checks the class of a block offers: L2InformationBlock
\* has is_crc_valid, L2ParityBlock has the fields block_id and
\* vertical_parity and no method but to_buffer and from_buffer
integrity_flags(block) ==
    IF block.kind = "information" THEN {"is_crc_valid"} ELSE {}

-----------------------------------------------------------------------------
(* L2 block decoder, src/darc/l2_block_decoder.py *)

LFSR_POLYNOMIAL == 341
LFSR_INITIAL == 272
BIC_MASK == 65535
BLOCK_SIZE == 272
DEFAULT_BIC_ERROR_TOLERANCE == 2

\* __detected_bic returning None
NoBic == -1

\* The generator lfsr(polynomial, initial) of src/darc/lfsr.py: a 9-bit
\* Fibonacci register; next() yields the low bit and shifts the parity of
\* the tapped bits in at the top.
lfsr_output(state) == state % 2

lfsr_advance(polynomial, state) ==
    LET feedback ==
            Cardinality({i \in 0..8 : Bit(state, i) = 1 /\ Bit(polynomial, i) = 1}) % 2
    IN  (state \div 2) + 256 * feedback

\* the bits of the low byte only
hamming_distance_low_byte(a, b) == Cardinality({i \in 0..7 : Bit(a, i) # Bit(b, i)})

\* (a ^ b).bit_count() on 16-bit values
hamming_distance(a, b) == Cardinality({i \in 0..15 : Bit(a, i) # Bit(b, i)})

\* the strict comparison instead of <= in the threshold test
detected_bic_strict(bic_register, errors) ==
    LET bics == <<BIC_1, BIC_2, BIC_3, BIC_4>>
        hamming_distances ==
            [n \in 1..4 |-> hamming_distance(bics[n], bic_register)] \o <<>>
        min_distance ==
            CHOOSE d \in {hamming_distances[n] : n \in 1..4} :
                \A n \in 1..4 : d <= hamming_distances[n]
        min_index ==
            CHOOSE n \in 1..4 :
                /\ hamming_distances[n] = min_distance
                /\ \A m \in 1..(n - 1) : hamming_distances[m] # min_distance
    IN  IF min_distance < errors THEN bics[min_index] ELSE NoBic

\* L2BlockDecoder.__detected_bic
detected_bic(bic_register, errors) ==
    LET bics == <<BIC_1, BIC_2, BIC_3, BIC_4>>
        hamming_distances ==
            [n \in 1..4 |-> hamming_distance(bics[n], bic_register)] \o <<>>
        min_distance ==
            CHOOSE d \in {hamming_distances[n] : n \in 1..4} :
                \A n \in 1..4 : d <= hamming_distances[n]
        min_index ==
            CHOOSE n \in 1..4 :
                /\ hamming_distances[n] = min_distance
                /\ \A m \in 1..(n - 1) : hamming_distances[m] # min_distance
    IN  IF min_distance <= errors THEN bics[min_index] ELSE NoBic

is_information_block_detected(bic_register, errors) ==
    detected_bic(bic_register, errors) \in {BIC_1, BIC_2, BIC_3}

is_parity_block_detected(bic_register, errors) ==
    detected_bic(bic_register, errors) = BIC_4

\* the decoder as a record of its fields
Decoder(bic_register, buffer, lfsr, errors) ==
    [current_bic |-> bic_register, data_buffer |-> buffer, lfsr_state |-> lfsr,
     allowable_bic_errors |-> errors]

\* a reset that leaves the BIC register as it is
block_reset_keep_bic(d) ==
    Decoder(d.current_bic, <<>>, LFSR_INITIAL, d.allowable_bic_errors)

\* L2BlockDecoder.reset
block_reset(d) == Decoder(0, <<>>, LFSR_INITIAL, d.allowable_bic_errors)

\* a value passed to push_bit: its Python type and its number
IntInput(n) == [type |-> "int", val |-> n]

FloatInput(n) == [type |-> "float", val |-> n]

\* the value test of the guard left out
is_valid_bit_any_int(bit) == bit.type = "int"

\* not isinstance(bit, int) or bit not in (0, 1), negated
is_valid_bit(bit) == bit.type = "int" /\ bit.val \in {0, 1}

\* bit ^ next(self.__lfsr) taken as the bit itself
descrambled_bit_plain(bit, state) == bit % 2

\* descrambled_bit = bit ^ next(self.__lfsr)
descrambled_bit(bit, state) == (bit + lfsr_output(state)) % 2

\* L2BlockDecoder.push_bit(bit): the decoder after the call and what the
\* call returned
push_bit(d, bit) ==
    IF ~is_valid_bit(bit) THEN [d |-> d, ret |-> NoBlock]
    ELSE IF detected_bic(d.current_bic, d.allowable_bic_errors) = NoBic
    THEN [d |-> Decoder((d.current_bic * 2 + bit.val) % (BIC_MASK + 1),
                        d.data_buffer, d.lfsr_state, d.allowable_bic_errors),
          ret |-> NoBlock]
    ELSE LET buffer == Append(d.data_buffer, descrambled_bit(bit.val, d.lfsr_state))
             collected == Decoder(d.current_bic, buffer,
                                  lfsr_advance(LFSR_POLYNOMIAL, d.lfsr_state),
                                  d.allowable_bic_errors)
         IN  IF Len(buffer) = BLOCK_SIZE
             THEN LET block_id == detected_bic(d.current_bic, d.allowable_bic_errors)
                      block ==
                          IF is_information_block_detected(
                                 d.current_bic, d.allowable_bic_errors)
                          THEN L2InformationBlock_from_buffer(block_id, buffer)
                          ELSE IF is_parity_block_detected(
                                      d.current_bic, d.allowable_bic_errors)
                          THEN L2ParityBlock_from_buffer(block_id, buffer)
                          ELSE RaisedBlock
                  IN  [d |-> block_reset(collected), ret |-> block]
             ELSE [d |-> collected, ret |-> NoBlock]

-----------------------------------------------------------------------------
(* The bit stream pushed into the block decoder.  Up to MaxPreamble bits   *)
(* of one of the noise words come first (all zeros, all ones, the low bits *)
(* of BIC_1, the high bits of BIC_1); then up to MaxBlocks blocks are sent,*)
(* each the 16 bits of its BIC, most significant first, followed by the    *)
(* 272 bits of a codeword scrambled with the LFSR sequence; values that    *)
(* are not bits may be pushed at any time.                                 *)

MaxPreamble == 9
MaxBlocks == 2
NumWords == 2

LINE_SIZE == 16 + BLOCK_SIZE

TxBics == {BIC_1, BIC_4}

NoiseWords ==
    {Zeros(MaxPreamble),
     [i \in 1..MaxPreamble |-> 1] \o <<>>,
     BitsOfInt(BIC_1 % (2 ^ MaxPreamble), MaxPreamble),
     BitsOfInt(BIC_1 \div (2 ^ (16 - MaxPreamble)), MaxPreamble)}

\* the channel errors on a payload: 0 for none, p in 1..272 for the payload
\* bit p, and BLOCK_SIZE + p for the two bits p and p + 100, which no burst
\* of width 8 covers
TxFlips == {0, 100, BLOCK_SIZE + 50}

\* the payload bits a channel error inverts
ErrorBits(flip) ==
    IF flip = 0 THEN {}
    ELSE IF flip <= BLOCK_SIZE THEN {flip}
    ELSE {flip - BLOCK_SIZE, flip - BLOCK_SIZE + 100}

InvalidInputs == {IntInput(2), FloatInput(1)}

NoInput == [type |-> "none", val |-> 0]

DataPattern(k) == [i \in 1..PACKET_SIZE |-> IF i % (k + 1) = 1 THEN 1 ELSE 0] \o <<>>

\* the (272,190) codeword of a data packet: the packet, its CRC-14 and the
\* 82 parity bits of the 190 bits before them
Codeword(data) ==
    LET info == data \o BitsOfInt(crc_14_darc(data, PACKET_SIZE), CRC_SIZE)
    IN  info \o crc_82_darc_bit_by_bit(info \o <<0, 0>>, L2_DATA_BLOCK_SIZE)

CODEWORDS == [k \in 1..NumWords |-> Codeword(DataPattern(k))] \o <<>>

\* the first 272 bits the generator yields from LFSR_INITIAL
LFSR_SEQUENCE ==
    LET Body(acc, i) ==
            [state |-> lfsr_advance(LFSR_POLYNOMIAL, acc.state),
             out |-> Append(acc.out, lfsr_output(acc.state))]
    IN  ForRange(Body, [state |-> LFSR_INITIAL, out |-> <<>>], 1, BLOCK_SIZE).out

SCRAMBLED_WORDS == [k \in 1..NumWords |-> XorBits(CODEWORDS[k], LFSR_SEQUENCE)] \o <<>>

\* bit number pos (1..288) of the line of a block
TxBit(bic, word, flip, pos) ==
    IF pos <= 16 THEN Bit(bic, 16 - pos)
    ELSE (SCRAMBLED_WORDS[word][pos - 16]
             + (IF pos - 16 \in ErrorBits(flip) THEN 1 ELSE 0)) % 2

DecoderNow == Decoder(current_bic, data_buffer, lfsr_state, allowable_bic_errors)

Searching == detected_bic(current_bic, allowable_bic_errors) = NoBic

\* the decoder and the result after a call whose outcome is r
Pushed(r) ==
    /\ current_bic' = r.d.current_bic
    /\ data_buffer' = r.d.data_buffer
    /\ lfsr_state' = r.d.lfsr_state
    /\ allowable_bic_errors' = r.d.allowable_bic_errors
    /\ block_result' = r.ret

\* one call push_bit(input); nothing else in the program moves
Push(input) ==
    /\ Pushed(push_bit(DecoderNow, input))
    /\ last_input' = input
    /\ UNCHANGED <<frameVars, bic_detected, l4Vars, callVars, pipeVars, storeVars>>

\* no call made and nothing transmitted yet
NothingPushed ==
    /\ block_result = NoBlock
    /\ last_input = NoInput
    /\ noise = <<>>
    /\ tx_count = 0
    /\ tx_bic = UNDEFINED
    /\ tx_word = 0
    /\ tx_flip = 0
    /\ tx_pos = 0
    /\ tx_sync = FALSE
    /\ bic_detected = <<>>

\* L2BlockDecoder.__init__, nothing pushed yet
BlockInit ==
    /\ current_bic = 0
    /\ data_buffer = <<>>
    /\ lfsr_state = LFSR_INITIAL
    /\ allowable_bic_errors = DEFAULT_BIC_ERROR_TOLERANCE
    /\ NothingPushed

PushNoise ==
    \E bit \in {0, 1} :
        /\ tx_count = 0
        /\ Len(noise) < MaxPreamble
        /\ \E word \in NoiseWords :
               SubSeq(word, 1, Len(noise) + 1) = Append(noise, bit)
        /\ Push(IntInput(bit))
        /\ noise' = Append(noise, bit)
        /\ UNCHANGED <<tx_count, tx_bic, tx_word, tx_flip, tx_pos, tx_sync>>

PushInvalid ==
    \E input \in InvalidInputs :
        /\ Push(input)
        /\ tx_pos' = IF tx_pos = LINE_SIZE THEN 0 ELSE tx_pos
        /\ UNCHANGED <<noise, tx_count, tx_bic, tx_word, tx_flip, tx_sync>>

\* the first BIC bit of a block
StartBlock ==
    \E bic \in TxBics :
        /\ tx_pos \in {0, LINE_SIZE}
        /\ tx_count < MaxBlocks
        /\ Push(IntInput(TxBit(bic, 0, 0, 1)))
        /\ tx_count' = tx_count + 1
        /\ tx_bic' = bic
        /\ tx_word' = 0
        /\ tx_flip' = 0
        /\ tx_pos' = 1
        /\ tx_sync' = Searching
        /\ noise' = <<>>

PushBicBit ==
    /\ tx_pos \in 1..15
    /\ Push(IntInput(TxBit(tx_bic, 0, 0, tx_pos + 1)))
    /\ tx_pos' = tx_pos + 1
    /\ tx_sync' = (tx_sync /\ Searching)
    /\ UNCHANGED <<noise, tx_count, tx_bic, tx_word, tx_flip>>

\* the first payload bit of a block
StartPayload ==
    \E word \in 1..NumWords, flip \in TxFlips :
        /\ tx_pos = 16
        /\ Push(IntInput(TxBit(tx_bic, word, flip, 17)))
        /\ tx_word' = word
        /\ tx_flip' = flip
        /\ tx_pos' = 17
        /\ UNCHANGED <<noise, tx_count, tx_bic, tx_sync>>

PushPayloadBit ==
    /\ tx_pos \in 17..(LINE_SIZE - 1)
    /\ Push(IntInput(TxBit(tx_bic, tx_word, tx_flip, tx_pos + 1)))
    /\ tx_pos' = tx_pos + 1
    /\ UNCHANGED <<noise, tx_count, tx_bic, tx_word, tx_flip, tx_sync>>

BlockNext ==
    \/ PushNoise
    \/ PushInvalid
    \/ StartBlock
    \/ PushBicBit
    \/ StartPayload
    \/ PushPayloadBit

-----------------------------------------------------------------------------
(* The blocks pushed into the frame decoder *)

\* The blocks an L2BlockDecoder hands over: an information block under
\* BIC_1..BIC_3, a parity block under BIC_4.
FrameBlocks ==
    {InformationBlock(BIC_1), InformationBlock(BIC_2),
     InformationBlock(BIC_3), ParityBlock(BIC_4)}

NoBlockPushed == [kind |-> "none", block_id |-> UNDEFINED]

FrameInit ==
    /\ block_buffer = <<>>
    /\ frame_result = NoFrame
    /\ pushed_block = NoBlockPushed
    /\ prev_size = 0
    /\ run_len = 0
    /\ frame_column = <<>>
    /\ frame_rows = <<>>

\* the 272 bits of a codeword with the channel errors in it
WithErrors(word, flip) ==
    [n \in 1..BLOCK_SIZE |->
        (word[n] + (IF n \in ErrorBits(flip) THEN 1 ELSE 0)) % 2] \o <<>>

\* The column of a complete frame that is hardest to correct, as
\* from_block_buffer hands it to correct_error_dscc_272_190: a codeword
\* (every column is one), a codeword with one bit in error, or a codeword
\* with two distant bits in error.
FrameColumns == {WithErrors(CODEWORDS[1], flip) : flip \in TxFlips}

\* map(correct_error_dscc_272_190, columns): raise_error keeps its default
columns_corrected(column) ==
    correct_error_dscc_272_190(column, TRUE).result = "ok"

PushBlock ==
    \E block \in FrameBlocks, column \in FrameColumns :
        LET r == push_block(block_buffer, block, columns_corrected(column))
            accepted == validate_sequence(Len(block_buffer) + 1, block)
        IN  /\ UNCHANGED <<blockVars, l4Vars, callVars, pipeVars, storeVars>>
            /\ frame_column' = IF accepted /\ Len(block_buffer) + 1 = FRAME_SIZE
                               THEN column ELSE <<>>
            /\ frame_rows' = IF r.ret.status = "frame"
                             THEN block_rows(Append(block_buffer, block)) ELSE <<>>
            /\ block_buffer' = r.block_buffer
            /\ frame_result' = r.ret
            /\ pushed_block' = block
            /\ prev_size' = Len(block_buffer)
            /\ run_len' = IF ~accepted THEN 0
                          ELSE IF block_buffer = <<>> THEN 1
                          ELSE run_len + 1

FrameNext == PushBlock

-----------------------------------------------------------------------------
(* L3 data packets, src/darc/l3_data.py, as L3DataPacket.from_buffer cuts  *)
(* them from the 176 bits of an information block.                         *)

TRANSMISSION_1_MODE == 1
ADDITIONAL_INFORMATION == 13
COMP1_DATA_START == 32
COMP2_DATA_START == 16

\* data_block: the bits of the packet after its header, 160 of them in
\* composition 2 and 144 in composition 1; payload names their contents
DataBlock(service_id, payload) ==
    [length |-> IF service_id = ADDITIONAL_INFORMATION
                THEN PACKET_SIZE - COMP2_DATA_START
                ELSE PACKET_SIZE - COMP1_DATA_START,
     payload |-> payload]

\* the packet numbered data_packet_number of a group carries the part of
\* the group with that number
L3DataPacket(service_id, eoi_flag, group_number, packet_number) ==
    [service_id |-> service_id,
     end_of_information_flag |-> eoi_flag,
     data_group_number |-> group_number,
     data_packet_number |-> packet_number,
     data_block |-> DataBlock(service_id, packet_number)]

-----------------------------------------------------------------------------
(* L4 data groups, src/darc/l4_data.py.  A buffer is the sequence of the   *)
(* data blocks concatenated into it; a data group keeps the buffer its     *)
(* fields are cut from.                                                    *)

MIN_BUFFER_SIZE == 48
COMP2_CRC_THRESHOLD == 160

\* len(buffer)
RECURSIVE BufferLength(_)
BufferLength(buffer) ==
    IF buffer = <<>> THEN 0
    ELSE buffer[1].length + BufferLength(Tail(buffer))

\* from_buffer raising
RaisedGroup ==
    [kind |-> "raised", service_id |-> 0, data_group_number |-> 0,
     buffer |-> <<>>, has_crc |-> FALSE]

L4DataGroup1_from_buffer(service_id, data_group_number, buffer) ==
    IF BufferLength(buffer) < MIN_BUFFER_SIZE THEN RaisedGroup
    ELSE [kind |-> "L4DataGroup1", service_id |-> service_id,
          data_group_number |-> data_group_number, buffer |-> buffer,
          has_crc |-> TRUE]

L4DataGroup2_from_buffer(service_id, data_group_number, buffer) ==
    [kind |-> "L4DataGroup2", service_id |-> service_id,
     data_group_number |-> data_group_number, buffer |-> buffer,
     has_crc |-> BufferLength(buffer) > COMP2_CRC_THRESHOLD]

-----------------------------------------------------------------------------
(* L4 data-group decoder, src/darc/l4_data_group_decoder.py *)

get_group_key(packet) == <<packet.service_id, packet.data_group_number>>

\* composition 1 built for every service
create_data_group_comp1(packet, buffer) ==
    L4DataGroup1_from_buffer(packet.service_id, packet.data_group_number, buffer)

\* L4DataGroupDecoder._create_data_group
create_data_group(packet, buffer) ==
    IF packet.service_id = ADDITIONAL_INFORMATION
    THEN L4DataGroup2_from_buffer(packet.service_id, packet.data_group_number,
                                  buffer)
    ELSE L4DataGroup1_from_buffer(packet.service_id, packet.data_group_number,
                                  buffer)

\* self._group_buffers[key] = buffer
PutBuffer(buffers, key, buffer) ==
    [k \in DOMAIN buffers \cup {key} |-> IF k = key THEN buffer ELSE buffers[k]]

\* self._group_buffers.pop(key)
PopBuffer(buffers, key) == [k \in DOMAIN buffers \ {key} |-> buffers[k]]

\* the loop of push_data_packets after one packet: the buffers, the list
\* data_groups, and the history of the call
AfterPacket(acc, packet, buffers, groups) ==
    [buffers |-> buffers,
     groups |-> groups,
     log |-> Append(acc.log,
                    [packet |-> packet,
                     before |-> acc.buffers, after |-> buffers,
                     groups_before |-> acc.groups, groups_after |-> groups])]

\* try: data_groups.append(self._create_data_group(...)) except: log
AppendGroup(groups, group) ==
    IF group.kind = "raised" THEN groups ELSE Append(groups, group)

\* the data block taking the place of the buffer of its key
JoinedBufferLatest(buffers, key, data_block) == <<data_block>>

\* the data block joined to the buffer of its key
JoinedBuffer(buffers, key, data_block) ==
    IF key \in DOMAIN buffers THEN Append(buffers[key], data_block)
    ELSE <<data_block>>

\* a packet whose group has no buffer opens one whatever its number
push_data_packet_any_number(acc, packet) ==
    LET key == get_group_key(packet)
        buffer == JoinedBuffer(acc.buffers, key, packet.data_block)
    IN  IF packet.end_of_information_flag = 1
        THEN AfterPacket(acc, packet, PopBuffer(acc.buffers, key),
                         AppendGroup(acc.groups, create_data_group(packet, buffer)))
        ELSE AfterPacket(acc, packet, PutBuffer(acc.buffers, key, buffer),
                         acc.groups)

\* the body of the loop of push_data_packets for one packet
push_data_packet(acc, packet) ==
    LET key == get_group_key(packet)
        buffer == JoinedBuffer(acc.buffers, key, packet.data_block)
    IN  IF key \notin DOMAIN acc.buffers /\ packet.data_packet_number # 0
        THEN AfterPacket(acc, packet, acc.buffers, acc.groups)
        ELSE IF packet.end_of_information_flag = 1
        THEN AfterPacket(acc, packet, PopBuffer(acc.buffers, key),
                         AppendGroup(acc.groups, create_data_group(packet, buffer)))
        ELSE AfterPacket(acc, packet, PutBuffer(acc.buffers, key, buffer),
                         acc.groups)

\* L4DataGroupDecoder.push_data_packets(data_packets)
push_data_packets(buffers, data_packets) ==
    LET Body(acc, i) == push_data_packet(acc, data_packets[i])
    IN  ForRange(Body, [buffers |-> buffers, groups |-> <<>>, log |-> <<>>],
                 1, Len(data_packets))

-----------------------------------------------------------------------------
(* The packets pushed into the L4 decoder: calls of up to MaxPackets       *)
(* packets of two services, one of composition 1 and one of composition 2, *)
(* first packets (number 0) and later ones, with and without the           *)
(* end-of-information flag; no buffer grows beyond MaxBufferBlocks blocks. *)

MaxPackets == 3
MaxBufferBlocks == 2

L4ServiceIds == {TRANSMISSION_1_MODE, ADDITIONAL_INFORMATION}

GroupNumbers == {0}

PacketNumbers == {0, 1}

L3Packets ==
    {L3DataPacket(s, e, g, n) :
        s \in L4ServiceIds, e \in {0, 1}, g \in GroupNumbers, n \in PacketNumbers}

PacketBatches == UNION {[1..n -> L3Packets] : n \in 0..MaxPackets}

NoBuffers == [k \in {} |-> <<>>]

BuffersBounded(log) ==
    \A i \in 1..Len(log) :
        \A k \in DOMAIN log[i].after : Len(log[i].after[k]) <= MaxBufferBlocks

\* L4DataGroupDecoder.__init__
L4Init ==
    /\ group_buffers = NoBuffers
    /\ data_groups = <<>>
    /\ packet_log = <<>>

\* the decoder after a call whose outcome is r
PacketsPushed(r) ==
    /\ BuffersBounded(r.log)
    /\ group_buffers' = r.buffers
    /\ data_groups' = r.groups
    /\ packet_log' = r.log

\* one call push_data_packets(data_packets), made when the caller is done
\* with what the call before returned
PushDataPackets ==
    \E data_packets \in PacketBatches :
        /\ packet_log = <<>>
        /\ data_groups = <<>>
        /\ PacketsPushed(push_data_packets(group_buffers, data_packets))
        /\ UNCHANGED <<frameVars, blockVars, callVars, pipeVars, storeVars>>

\* the caller has iterated over the returned list
TakeDataGroups ==
    /\ packet_log # <<>>
    /\ packet_log' = <<>>
    /\ data_groups' = <<>>
    /\ UNCHANGED <<frameVars, blockVars, group_buffers, callVars, pipeVars, storeVars>>

L4Next ==
    \/ PushDataPackets
    \/ TakeDataGroups

-----------------------------------------------------------------------------
(* L4DataGroup1 on the bits of its buffer, src/darc/l4_data.py *)

START_OF_HEADING == 1
COMP1_BLOCK_SIZE == 18
COMP1_FIXED_BYTES == 6
BYTE_SIZE == 8
L4_CRC_SIZE == 16

\* bits[::-1]
Reverse(bits) == [i \in 1..Len(bits) |-> bits[Len(bits) + 1 - i]] \o <<>>

\* the place of bit i when the bits of its byte are reversed
MirrorInByte(i) == 8 * ((i - 1) \div 8) + 8 - ((i - 1) % 8)

\* reverse_bits of src/darc/bit_operations.py on the bytes of a buffer
reverse_bits(bits) == [i \in 1..Len(bits) |-> bits[MirrorInByte(i)]] \o <<>>

\* buffer[start:stop] for 0 <= start, clipped at the end as Python does
Slice(bits, start, stop) ==
    SubSeq(bits, start + 1, IF stop <= Len(bits) THEN stop ELSE Len(bits))

\* from_buffer raising (also where .bytes is asked of bits that are no
\* whole number of bytes)
RaisedGroup1 ==
    [raised |-> TRUE, data_group_link |-> 0, data_group_data |-> <<>>,
     end_of_data_group |-> 0, crc |-> 0]

\* L4DataGroup1(...): the fields that to_buffer writes
L4DataGroup1(link, data, end_mark, crc) ==
    [raised |-> FALSE, data_group_link |-> link, data_group_data |-> data,
     end_of_data_group |-> end_mark, crc |-> crc]

\* data_size = buffer[8:15][::-1].uint << 8 | buffer[16:24][::-1].uint
comp1_data_size(buffer) ==
    256 * IntOfBits(Reverse(Slice(buffer, 8, 15)))
        + IntOfBits(Reverse(Slice(buffer, 16, 24)))

\* the fields cut out once the data bits are known
comp1_fields(buffer, data) ==
    IF Len(data) % BYTE_SIZE # 0 THEN RaisedGroup1
    ELSE L4DataGroup1(buffer[16],
                      reverse_bits(data),
                      IntOfBits(Reverse(Slice(buffer, Len(buffer) - 24,
                                              Len(buffer) - 16))),
                      IntOfBits(Slice(buffer, Len(buffer) - L4_CRC_SIZE,
                                      Len(buffer))))

\* L4DataGroup1.from_buffer
L4DataGroup1_from_bits(buffer) ==
    IF Len(buffer) < MIN_BUFFER_SIZE THEN RaisedGroup1
    ELSE comp1_fields(buffer,
                      Slice(buffer, 24, 24 + BYTE_SIZE * comp1_data_size(buffer)))

\* pack("uint8, uint1, uint15, bytes, pad, uint8, uint16", ...)
comp1_packed(group, data, padding_bits) ==
    BitsOfInt(START_OF_HEADING, 8) \o <<group.data_group_link>>
        \o BitsOfInt(Len(data) \div BYTE_SIZE, 15) \o data \o Zeros(padding_bits)
        \o BitsOfInt(group.end_of_data_group, 8) \o BitsOfInt(group.crc, L4_CRC_SIZE)

\* the first three bytes and the byte before the CRC, each reversed
comp1_reversed_segments(packed) ==
    [i \in 1..Len(packed) |->
        IF i <= 24 \/ (i > Len(packed) - 24 /\ i <= Len(packed) - 16)
        THEN packed[MirrorInByte(i)] ELSE packed[i]] \o <<>>

\* padding_bits = BYTE_SIZE * (BLOCK_SIZE - total_size % BLOCK_SIZE)
comp1_padding_bits(data_size) ==
    BYTE_SIZE * (COMP1_BLOCK_SIZE
                   - ((COMP1_FIXED_BYTES + data_size) % COMP1_BLOCK_SIZE))

\* L4DataGroup1.to_buffer
L4DataGroup1_to_buffer(group) ==
    comp1_reversed_segments(
        comp1_packed(group, reverse_bits(group.data_group_data),
                     comp1_padding_bits(Len(group.data_group_data) \div BYTE_SIZE)))

\* from_buffer(...).to_buffer()
comp1_round_trip(buffer) ==
    IF L4DataGroup1_from_bits(buffer).raised
    THEN [raised |-> TRUE, buffer |-> <<>>]
    ELSE [raised |-> FALSE,
          buffer |-> L4DataGroup1_to_buffer(L4DataGroup1_from_bits(buffer))]

-----------------------------------------------------------------------------
(* Well-formed buffers of composition 1, as the transmitter lays them out: *)
(* the SOH byte, the link flag and the 15-bit size, that many data bytes,  *)
(* zero bytes up to a multiple of 18 bytes, the end-of-data-group byte and *)
(* the CRC; the first three bytes and the end byte are sent low bit first. *)

MaxDataSize == 13

\* the zero bytes needed to reach a multiple of 18 bytes
Comp1PaddingBytes(data_size) == (18 - ((6 + data_size) % 18)) % 18

DataBytes(data_size, k) ==
    [i \in 1..(8 * data_size) |-> IF i % (k + 2) = 0 THEN 1 ELSE 0] \o <<>>

WellFormedComp1(link, data_size, k, end_mark, crc) ==
    Reverse(BitsOfInt(1, 8))
        \o Reverse(BitsOfInt(data_size \div 256, 7)) \o <<link>>
        \o Reverse(BitsOfInt(data_size % 256, 8))
        \o DataBytes(data_size, k)
        \o Zeros(8 * Comp1PaddingBytes(data_size))
        \o Reverse(BitsOfInt(end_mark, 8))
        \o BitsOfInt(crc, 16)

Comp1Buffers ==
    {WellFormedComp1(link, data_size, k, end_mark, crc) :
        link \in {0, 1}, data_size \in 0..MaxDataSize, k \in {1, 2},
        end_mark \in {0, 3, 255}, crc \in {0, 48879}}

Group1Init ==
    /\ call_input \in Comp1Buffers
    /\ call_result = <<>>

\* L4DataGroup1.from_buffer(service_id, group_number, b).to_buffer()
RoundTripGroup1 ==
    /\ call_result = <<>>
    /\ call_result' = <<comp1_round_trip(call_input)>>
    /\ UNCHANGED <<frameVars, blockVars, l4Vars, call_input, pipeVars, storeVars>>

Group1Next == RoundTripGroup1

-----------------------------------------------------------------------------
(* CRC-16/DARC, src/darc/crc_16_darc.py *)

CRC16_WIDTH == 16

\* CRC_POLYNOMIAL = 0x1021, as 16 bits
CRC16_POLYNOMIAL == BitsOfInt(4129, CRC16_WIDTH)

\* _generate_crc_16_darc_table: table[i] from value = i << 8; the entry of
\* index i is element i + 1 of the sequence
CRC_16_DARC_TABLE ==
    [n \in 1..256 |->
        CrcShiftTimes(CRC16_POLYNOMIAL,
                      BitsOfInt(n - 1, 8) \o Zeros(CRC16_WIDTH - 8), 8)] \o <<>>

\* a table-driven loop that takes the table index from the low byte
crc_16_darc_table_driven_low_byte(message) ==
    LET Body(crc, i) ==
            LET table_index ==
                    IntOfBits(XorBits(SubSeq(crc, 9, 16), ByteAt(message, i)))
            IN  XorBits(CRC_16_DARC_TABLE[table_index + 1], ShiftLeft(crc, 8))
    IN  ForRange(Body, Zeros(CRC16_WIDTH), 1, Len(message) \div 8)

\* _crc_16_darc_table_driven: for value in data
crc_16_darc_table_driven(message) ==
    LET Body(crc, i) ==
            LET table_index ==
                    IntOfBits(XorBits(SubSeq(crc, 1, 8), ByteAt(message, i)))
            IN  XorBits(CRC_16_DARC_TABLE[table_index + 1], ShiftLeft(crc, 8))
    IN  ForRange(Body, Zeros(CRC16_WIDTH), 1, Len(message) \div 8)

\* the inner loop of _crc_16_darc_bit_by_bit over the bits i of one byte
crc_16_byte_bits(state, value) ==
    LET Body(acc, i) ==
            IF acc.bits <= 0 THEN acc
            ELSE LET bit == (acc.crc[1] + value[i + 1]) % 2
                 IN  [crc |-> IF bit = 1
                              THEN XorBits(ShiftLeft(acc.crc, 1), CRC16_POLYNOMIAL)
                              ELSE ShiftLeft(acc.crc, 1),
                      bits |-> acc.bits - 1]
    IN  ForRange(Body, state, 0, 7)

\* _crc_16_darc_bit_by_bit: for value in data
crc_16_darc_bit_by_bit(message, bits) ==
    LET Body(acc, n) == crc_16_byte_bits(acc, ByteAt(message, n))
    IN  ForRange(Body, [crc |-> Zeros(CRC16_WIDTH), bits |-> bits],
                 1, Len(message) \div 8).crc

\* crc_16_darc(message, bits=bits), as a number
crc_16_darc(message, bits) ==
    IntOfBits(IF bits % 8 = 0 THEN crc_16_darc_table_driven(message)
              ELSE crc_16_darc_bit_by_bit(message, bits))

-----------------------------------------------------------------------------
(* The CRC functions called on byte-aligned messages: every message of one *)
(* byte, and the messages of up to MaxCrcBytes bytes made of CrcByteValues. *)

MaxCrcBytes == 3

CrcByteValues == {0, 1, 128, 163, 255}

BytesOfMessage(values) ==
    LET Body(acc, i) == acc \o BitsOfInt(values[i], 8)
    IN  ForRange(Body, <<>>, 1, Len(values))

CrcMessages ==
    {BytesOfMessage(v) : v \in UNION {[1..n -> CrcByteValues] : n \in 0..MaxCrcBytes}}
        \cup {BitsOfInt(b, 8) : b \in 0..255}

CrcInit ==
    /\ call_input \in CrcMessages
    /\ call_result = <<>>

\* the result of the table-driven and of the bit-by-bit function
BothWays(name, table_driven, bit_by_bit) ==
    [crc |-> name, table_driven |-> table_driven, bit_by_bit |-> bit_by_bit]

Crc14BothWays ==
    /\ call_result = <<>>
    /\ call_result' = <<BothWays(14, crc_14_darc_table_driven(call_input),
                                 crc_14_darc_bit_by_bit(call_input, Len(call_input)))>>
    /\ UNCHANGED <<frameVars, blockVars, l4Vars, call_input, pipeVars, storeVars>>

Crc16BothWays ==
    /\ call_result = <<>>
    /\ call_result' = <<BothWays(16, crc_16_darc_table_driven(call_input),
                                 crc_16_darc_bit_by_bit(call_input, Len(call_input)))>>
    /\ UNCHANGED <<frameVars, blockVars, l4Vars, call_input, pipeVars, storeVars>>

Crc82BothWays ==
    /\ call_result = <<>>
    /\ call_result' = <<BothWays(82, crc_82_darc_table_driven(call_input),
                                 crc_82_darc_bit_by_bit(call_input, Len(call_input)))>>
    /\ UNCHANGED <<frameVars, blockVars, l4Vars, call_input, pipeVars, storeVars>>

CrcNext ==
    \/ Crc14BothWays
    \/ Crc16BothWays
    \/ Crc82BothWays

-----------------------------------------------------------------------------
(* correct_error_dscc_272_190 called on a codeword with one burst error:   *)
(* every burst pattern of width 1..8, placed within MaxEdgeOffset bits of  *)
(* either end of the 272 bits.                                             *)

MaxEdgeOffset == 1

\* the shifts k of a burst of width w that keep it within the 272 bits and
\* within MaxEdgeOffset of the last or of the first transmitted bit
BurstOffsets(w) ==
    {k \in 0..(DSCC_LENGTH - w) :
        k <= MaxEdgeOffset \/ k >= DSCC_LENGTH - w - MaxEdgeOffset}

Burst(word, width, counter, offset) ==
    [word |-> word, width |-> width, counter |-> counter, offset |-> offset]

Bursts ==
    UNION {UNION {{Burst(word, w, j, k) : word \in 1..NumWords, k \in BurstOffsets(w)} :
                  j \in 0..(counter_max(w) - 1)} :
           w \in 1..DSCC_ERROR_WIDTH}

\* c XOR e
BurstBuffer(b) ==
    XorBits(CODEWORDS[b.word],
            error_vector(error_with_counter(b.width, b.counter), b.offset))

DsccInit ==
    /\ call_input \in Bursts
    /\ call_result = <<>>

\* correct_error_dscc_272_190(c XOR e)
CorrectBurst ==
    /\ call_result = <<>>
    /\ call_result' = <<correct_error_dscc_272_190(BurstBuffer(call_input), TRUE)>>
    /\ UNCHANGED <<frameVars, blockVars, l4Vars, call_input, pipeVars, storeVars>>

DsccNext ==
    \/ CorrectBurst

-----------------------------------------------------------------------------
(* L5 data headers, src/darc/l5_data.py.  A header is its parameter (the   *)
(* class) and the values of its fields in the order the class declares     *)
(* them.                                                                    *)

INFORMATION_SEPARATOR == 30

DataHeader(parameter, fields) == [parameter |-> parameter, fields |-> fields]

\* bitstring.pack(format, *values) with a format of uintN tokens: it
\* raises when the numbers of tokens and of values differ and when a
\* value does not fit its token
pack_uints(widths, values) ==
    IF Len(widths) # Len(values)
         \/ \E i \in 1..Len(values) : values[i] < 0 \/ values[i] >= 2 ^ widths[i]
    THEN [raised |-> TRUE, buffer |-> <<>>]
    ELSE LET Body(acc, i) == acc \o BitsOfInt(values[i], widths[i])
         IN  [raised |-> FALSE, buffer |-> ForRange(Body, <<>>, 1, Len(values))]

\* the widths of the format string of to_buffer
to_buffer_format(parameter) ==
    CASE parameter = 48 -> <<8, 8, 8, 2, 6, 8, 4, 4>>
      [] parameter = 49 -> <<8, 8, 8, 2, 6, 8, 4, 4, 2, 6, 4, 4, 8, 8, 4, 4>>
      [] parameter = 50 -> <<8, 8, 8, 2, 6, 8, 4, 4, 4, 4>>
      [] parameter = 51 -> <<8, 8, 8, 2, 6, 8, 4, 4,
                             4, 4, 2, 6, 4, 4, 8, 8, 4, 4,
                             2, 6, 4, 4, 8, 8, 4, 4,
                             4, 1, 3, 2, 6, 2, 2, 4, 8>>
      [] parameter = 52 -> <<8, 8, 8, 1, 3, 4, 8, 8, 8>>
      [] parameter = 53 -> <<8, 8, 8, 1, 3, 4, 8, 8, 8,
                             2, 6, 4, 4, 8, 8, 4, 4, 2, 2, 4, 8>>
      [] parameter = 54 -> <<8, 8>>
      [] parameter = 55 -> <<8, 8, 6, 2>>

\* x >> n and x & (2^n - 1)
High(x, n) == x \div (2 ^ n)

Low(x, n) == x % (2 ^ n)

\* the values to_buffer hands to pack
to_buffer_values(h) ==
    LET f == h.fields
    IN  <<INFORMATION_SEPARATOR, h.parameter>> \o
        (CASE h.parameter \in {48, 50, 54, 55} -> f
           [] h.parameter = 49 ->
                SubSeq(f, 1, 10) \o <<High(f[11], 4), High(f[12], 4),
                                      Low(f[11], 4), Low(f[12], 4)>>
           [] h.parameter = 51 ->
                SubSeq(f, 1, 12) \o <<High(f[13], 4), High(f[14], 4),
                                      Low(f[13], 4), Low(f[14], 4),
                                      f[15], f[16], High(f[17], 3), Low(f[17], 3),
                                      f[18], f[19], f[20],
                                      High(f[21], 8), Low(f[21], 8)>>
           [] h.parameter = 52 ->
                SubSeq(f, 1, 5) \o <<High(f[6], 8), Low(f[6], 8)>>
           [] h.parameter = 53 ->
                SubSeq(f, 1, 5) \o <<High(f[6], 8), Low(f[6], 8)>>
                    \o SubSeq(f, 7, 10)
                    \o <<High(f[11], 4), High(f[12], 4), Low(f[11], 4), Low(f[12], 4),
                         f[13], f[14], High(f[15], 8), Low(f[15], 8)>>)

\* DataHeaderBase.to_buffer of the eight classes
header_to_buffer(h) == pack_uints(to_buffer_format(h.parameter), to_buffer_values(h))

\* the widths read() reads after the separator and the parameter
read_format(parameter) ==
    CASE parameter = 48 -> <<8, 2, 6, 8, 4, 4>>
      [] parameter = 49 -> <<8, 2, 6, 8, 4, 4, 2, 6, 4, 4, 8, 8, 4, 4>>
      [] parameter = 50 -> <<8, 2, 6, 8, 4, 4, 4, 4>>
      [] parameter = 51 -> <<8, 2, 6, 8, 4, 4, 4, 4, 2, 6, 4, 4, 8, 8, 4, 4,
                             4, 1, 3, 2, 6, 2, 2, 4, 8>>
      [] parameter = 52 -> <<8, 1, 3, 4, 8, 8, 8>>
      [] parameter = 53 -> <<8, 1, 3, 4, 8, 8, 8, 2, 6, 4, 4, 8, 8, 4, 4, 2, 2, 4, 8>>
      [] parameter = 54 -> <<>>
      [] parameter = 55 -> <<6, 2>>

\* stream.read("uintN") for each width in turn, from bit position pos;
\* a read beyond the end raises
read_uints(stream, pos, widths) ==
    LET Body(acc, i) ==
            IF acc.raised \/ acc.pos + widths[i] > Len(stream)
            THEN [raised |-> TRUE, pos |-> acc.pos, values |-> acc.values]
            ELSE [raised |-> FALSE, pos |-> acc.pos + widths[i],
                  values |-> Append(acc.values,
                                    IntOfBits(SubSeq(stream, acc.pos + 1,
                                                     acc.pos + widths[i])))]
    IN  ForRange(Body, [raised |-> FALSE, pos |-> pos, values |-> <<>>],
                 1, Len(widths))

\* the fields read() makes of the values it read
fields_read(parameter, r) ==
    CASE parameter \in {48, 50, 54, 55} -> r
      [] parameter = 49 ->
           SubSeq(r, 1, 10) \o <<r[11] * 16 + r[13], r[12] * 16 + r[14]>>
      [] parameter = 51 ->
           SubSeq(r, 1, 12) \o <<r[13] * 16 + r[15], r[14] * 16 + r[16],
                                 r[17], r[18], r[19] * 4 + r[20], r[21],
                                 r[22], r[23], r[24] * 256 + r[25]>>
      [] parameter = 52 -> SubSeq(r, 1, 5) \o <<r[6] * 256 + r[7]>>
      [] parameter = 53 ->
           SubSeq(r, 1, 5) \o <<r[6] * 256 + r[7]>> \o SubSeq(r, 8, 11)
               \o <<r[12] * 16 + r[14], r[13] * 16 + r[15],
                    r[16], r[17], r[18] * 256 + r[19]>>

RaisedHeader == [raised |-> TRUE, none |-> FALSE, header |-> DataHeader(0, <<>>)]

NoHeader == [raised |-> FALSE, none |-> TRUE, header |-> DataHeader(0, <<>>)]

\* the header read() returns once the separator and the parameter are read
header_after_prefix(parameter, prefix, body) ==
    IF prefix.raised \/ prefix.values[1] # INFORMATION_SEPARATOR
         \/ prefix.values[2] # parameter \/ body.raised
    THEN RaisedHeader
    ELSE [raised |-> FALSE, none |-> FALSE,
          header |-> DataHeader(parameter, fields_read(parameter, body.values))]

\* cls.read(stream) of the class with this parameter, the stream at its
\* start
header_read(parameter, stream) ==
    header_after_prefix(parameter, read_uints(stream, 0, <<8, 8>>),
                        read_uints(stream, 16, read_format(parameter)))

\* read_data_header(stream)
read_data_header(stream) ==
    IF Len(stream) < 16 THEN RaisedHeader
    ELSE IF IntOfBits(SubSeq(stream, 9, 16)) \in 48..55
    THEN header_read(IntOfBits(SubSeq(stream, 9, 16)), stream)
    ELSE NoHeader

\* h.to_buffer() read back by the read() of its class
header_round_trip(h, packed) ==
    IF packed.raised THEN RaisedHeader ELSE header_read(h.parameter, packed.buffer)

\* h.to_buffer() read back by read_data_header
header_round_trip_dispatched(h, packed) ==
    IF packed.raised THEN RaisedHeader ELSE read_data_header(packed.buffer)

-----------------------------------------------------------------------------
(* Header values: for each of the eight classes, fields within the widths  *)
(* in which read() reads them, filled by one of MaxFill + 1 patterns or    *)
(* with their largest values.                                              *)

MaxFill == 7

\* the widths of the fields of each class
field_widths(parameter) ==
    CASE parameter = 48 -> <<8, 2, 6, 8, 4, 4>>
      [] parameter = 49 -> <<8, 2, 6, 8, 4, 4, 2, 6, 4, 4, 12, 12>>
      [] parameter = 50 -> <<8, 2, 6, 8, 4, 4, 4, 4>>
      [] parameter = 51 -> <<8, 2, 6, 8, 4, 4, 4, 4, 2, 6, 4, 4, 12, 12,
                             4, 1, 5, 6, 2, 2, 12>>
      [] parameter = 52 -> <<8, 1, 3, 4, 8, 16>>
      [] parameter = 53 -> <<8, 1, 3, 4, 8, 16, 2, 6, 4, 4, 12, 12, 2, 2, 12>>
      [] parameter = 54 -> <<>>
      [] parameter = 55 -> <<6, 2>>

FilledFields(widths, k) ==
    [i \in 1..Len(widths) |-> (k * (2 * i + 1) * 37) % (2 ^ widths[i])] \o <<>>

LargestFields(widths) == [i \in 1..Len(widths) |-> 2 ^ widths[i] - 1] \o <<>>

HeaderValues ==
    {DataHeader(p, FilledFields(field_widths(p), k)) : p \in 48..55, k \in 0..MaxFill}
        \cup {DataHeader(p, LargestFields(field_widths(p))) : p \in 48..55}

HeaderInit ==
    /\ call_input \in HeaderValues
    /\ call_result = <<>>

\* cls.read(BitStream(h.to_buffer()))
RoundTripRead ==
    /\ call_result = <<>>
    /\ call_result' = <<header_round_trip(call_input, header_to_buffer(call_input))>>
    /\ UNCHANGED <<frameVars, blockVars, l4Vars, call_input, pipeVars, storeVars>>

\* read_data_header(BitStream(h.to_buffer()))
RoundTripReadDataHeader ==
    /\ call_result = <<>>
    /\ call_result' =
           <<header_round_trip_dispatched(call_input, header_to_buffer(call_input)),
             "read_data_header">>
    /\ UNCHANGED <<frameVars, blockVars, l4Vars, call_input, pipeVars, storeVars>>

HeaderNext ==
    \/ RoundTripRead
    \/ RoundTripReadDataHeader

-----------------------------------------------------------------------------
(* Reading from a bit stream: bitstring's read, and helpers.BitReader.     *)
(* A reader is the position in the stream, the exception raised ("" for    *)
(* none), the values read, the iterations of the loops gone through and    *)
(* the blocks or groups a record parser has put together.                  *)

Reader(pos) ==
    [pos |-> pos, err |-> "", out |-> <<>>, log |-> <<>>, blocks |-> <<>>]

\* stream.read("uint:bits"); error is the exception raised when the stream
\* ends before
stream_read(stream, r, bits, error) ==
    IF r.err # "" THEN r
    ELSE IF r.pos + bits > Len(stream) THEN [r EXCEPT !.err = error]
    ELSE [r EXCEPT !.pos = r.pos + bits,
                   !.out = Append(r.out,
                                  IntOfBits(SubSeq(stream, r.pos + 1, r.pos + bits)))]

\* stream.read(bits).bytes, the bytes kept as their bits
stream_read_bytes(stream, r, bits, error) ==
    IF r.err # "" THEN r
    ELSE IF r.pos + bits > Len(stream) THEN [r EXCEPT !.err = error]
    ELSE [r EXCEPT !.pos = r.pos + bits,
                   !.out = Append(r.out, SubSeq(stream, r.pos + 1, r.pos + bits))]

\* stream.read of each width in turn
stream_read_all(stream, r, widths, error) ==
    LET Body(acc, i) == stream_read(stream, acc, widths[i], error)
    IN  ForRange(Body, r, 1, Len(widths))

\* one turn of a while loop: where the stream was read from, where it is
\* read from next, whether the loop was left, and the items held then
Turn(loop, before, after, left, items) ==
    [loop |-> loop, before |-> before, after |-> after, left |-> left, items |-> items]

\* the last turn neither moved the position forward nor left the loop
Stuck(log) ==
    /\ log # <<>>
    /\ ~log[Len(log)].left
    /\ log[Len(log)].after <= log[Len(log)].before

\* the state of a loop that collects items from a stream: caught is the
\* exception its handler caught, err the one that leaves the function
LoopState(pos) ==
    [pos |-> pos, items |-> <<>>, done |-> FALSE, err |-> "", caught |-> "",
     log |-> <<>>, blocks |-> <<>>]

\* the loop state after a turn, the turn entered in the log
Logged(loop, before, after) ==
    [after EXCEPT !.log = Append(after.log,
                                 Turn(loop, before.pos, after.pos, after.done,
                                      Len(after.items)))]

\* while pos < len: Iteration -- the turns are taken until the loop is
\* left; a turn that neither moves forward nor leaves would repeat for
\* ever, and is the last one taken here
WhileReading(Iteration(_, _), loop, stream, start) ==
    LET Body(acc, i) ==
            IF acc.done \/ acc.pos >= Len(stream) \/ Stuck(acc.log) THEN acc
            ELSE Logged(loop, acc, Iteration(stream, acc))
    IN  ForRange(Body, start, 1, Len(stream) + 1)

-----------------------------------------------------------------------------
(* Generic data units and L5DataDecoder, src/darc/l5_data.py and           *)
(* src/darc/l5_data_decoder.py                                             *)

DATA_UNIT_SEPARATOR == 31
PADDING_BYTE == 0

GenericDataUnit(parameter, link_flag, data) ==
    [data_unit_parameter |-> parameter, data_unit_link_flag |-> link_flag,
     data |-> data]

\* the bytes GenericDataUnit.read returns for a unit without separator
RawBytes(data) == [bytes |-> data]

\* GenericDataUnit.read from the size on: r holds the separator, the
\* parameter, the link flag and the two parts of the size
generic_data_unit_data(stream, r) ==
    IF r.err # "" THEN r
    ELSE stream_read_bytes(stream, r, 8 * (r.out[4] * 256 + r.out[5]), "ReadError")

\* the reader and the item returned (none when an exception is raised)
UnitRead(r) ==
    [r |-> r,
     item |-> IF r.err # "" THEN <<>>
              ELSE <<GenericDataUnit(r.out[2], r.out[3], r.out[6])>>]

\* GenericDataUnit.read(stream) with the stream at pos, the separator read
generic_data_unit_after_separator(stream, pos, sep) ==
    IF sep.err # "" THEN [r |-> sep, item |-> <<>>]
    ELSE IF sep.out[1] # DATA_UNIT_SEPARATOR
    THEN IF pos % 8 # 0
         THEN [r |-> [sep EXCEPT !.err = "ByteAlignError"], item |-> <<>>]
         ELSE [r |-> [sep EXCEPT !.pos = Len(stream)],
               item |-> <<RawBytes(SubSeq(stream, pos + 1, Len(stream)))>>]
    ELSE UnitRead(generic_data_unit_data(
                      stream, stream_read_all(stream, sep, <<8, 1, 7, 8>>, "ReadError")))

\* GenericDataUnit.read(stream) with the stream at pos
generic_data_unit_read(stream, pos) ==
    generic_data_unit_after_separator(
        stream, pos, stream_read(stream, Reader(pos), 8, "ReadError"))

\* the handler of _read_data_units appending what was read of the unit
\* that was cut short
read_data_units_item_keeping_partial(state, read) ==
    IF read.r.err = "ReadError"
    THEN [state EXCEPT !.pos = read.r.pos, !.done = TRUE, !.caught = "ReadError",
                       !.items = Append(state.items, [partial |-> read.r.out])]
    ELSE IF read.r.err # ""
    THEN [state EXCEPT !.pos = read.r.pos, !.done = TRUE, !.err = read.r.err]
    ELSE [state EXCEPT !.pos = read.r.pos, !.items = state.items \o read.item]

\* _read_data_units: data_unit = GenericDataUnit.read(stream);
\* data_units.append(data_unit); except ReadError: break
read_data_units_item(state, read) ==
    IF read.r.err = "ReadError"
    THEN [state EXCEPT !.pos = read.r.pos, !.done = TRUE, !.caught = "ReadError"]
    ELSE IF read.r.err # ""
    THEN [state EXCEPT !.pos = read.r.pos, !.done = TRUE, !.err = read.r.err]
    ELSE [state EXCEPT !.pos = read.r.pos, !.items = state.items \o read.item]

\* a padding byte looked at and left in the stream
read_data_units_iteration_peek_only(stream, state) ==
    IF state.pos + 8 > Len(stream)
    THEN [state EXCEPT !.done = TRUE, !.caught = "ReadError"]
    ELSE IF IntOfBits(SubSeq(stream, state.pos + 1, state.pos + 8)) = PADDING_BYTE
    THEN state
    ELSE read_data_units_item(state, generic_data_unit_read(stream, state.pos))

\* one turn of the while loop of _read_data_units
read_data_units_iteration(stream, state) ==
    IF state.pos + 8 > Len(stream)
    THEN [state EXCEPT !.done = TRUE, !.caught = "ReadError"]
    ELSE IF IntOfBits(SubSeq(stream, state.pos + 1, state.pos + 8)) = PADDING_BYTE
    THEN [state EXCEPT !.pos = state.pos + 8]
    ELSE read_data_units_item(state, generic_data_unit_read(stream, state.pos))

\* L5DataDecoder._read_data_units(stream) with the stream at pos
read_data_units(stream, pos) ==
    WhileReading(read_data_units_iteration, "read_data_units", stream, LoopState(pos))

SumSeq(s) ==
    LET Body(acc, i) == acc + s[i]
    IN  ForRange(Body, 0, 1, Len(s))

\* the stream position after the read() of a header class
header_size(parameter) == 16 + SumSeq(read_format(parameter))

\* what push_data_group returns or raises: the header (none for None),
\* the data units, and the turns of the loop that read them
L5Data(raised, header, units) ==
    [raised |-> raised, header |-> header, data_units |-> units.items,
     caught |-> units.caught, log |-> units.log]

\* _process_data_group1, read_data_header done
process_data_group1_after_header(stream, header) ==
    IF header.raised THEN L5Data(TRUE, <<>>, LoopState(0))
    ELSE IF header.none THEN L5Data(FALSE, <<>>, LoopState(0))
    ELSE L5Data(FALSE, <<header.header>>,
                         read_data_units(stream, header_size(header.header.parameter)))

\* L5DataDecoder.push_data_group of an L4DataGroup1 with this
\* data_group_data
push_data_group1(data_group_data) ==
    process_data_group1_after_header(data_group_data, read_data_header(data_group_data))

-----------------------------------------------------------------------------
(* helpers.BitReader and read_name, src/darc/helpers.py.  A record of a    *)
(* typed data unit is kept as the values read for it, in reading order; a  *)
(* name is kept as the bits of its bytes.                                  *)

\* BitReader.u, flag and readlist, of each width in turn
u(stream, r, widths) == stream_read_all(stream, r, widths, "BitstreamParseError")

\* readlist("pad:bits")
pad(stream, r, bits, error) ==
    IF r.err # "" THEN r
    ELSE IF r.pos + bits > Len(stream) THEN [r EXCEPT !.err = error]
    ELSE [r EXCEPT !.pos = r.pos + bits]

\* BitReader.align_byte
align_byte(stream, r) ==
    IF r.err # "" \/ r.pos % 8 = 0 THEN r
    ELSE pad(stream, r, 8 - (r.pos % 8), "ReadError")

\* read_name from the data on: reader._bs.read(length * 8).bytes
read_name_data(stream, r) ==
    IF r.err # "" THEN r
    ELSE IF r.out[Len(r.out)] = 0 THEN [r EXCEPT !.out = Append(r.out, <<>>)]
    ELSE stream_read_bytes(stream, r, 8 * r.out[Len(r.out)], "ReadError")

read_name(stream, r) == read_name_data(stream, u(stream, r, <<8>>))

\* except ReadError as err: raise BitstreamParseError(...) from err
Wrapped(r) ==
    IF r.err = "ReadError" THEN [r EXCEPT !.err = "BitstreamParseError"] ELSE r

\* coord_x, coord_y of a block whose mesh flag is set; base is the number
\* of values read before the block
block_coords(stream, r, base) ==
    IF r.err # "" THEN r
    ELSE IF r.out[base + 1] = 1 THEN u(stream, r, <<8, 8>>)
    ELSE r

\* the name of a block whose name flag is set
block_name(stream, r, base) ==
    IF r.err # "" THEN r
    ELSE IF r.out[base + 2] = 1 THEN read_name(stream, r)
    ELSE r

WithTurn(r, turn) == [r EXCEPT !.log = Append(r.log, turn)]

\* the exception handler and the progress guard of a from_generic loop:
\* parsed is the reader after the record parser, handled the exceptions
\* the handler catches, no_progress the exception raised for a record
\* that read nothing ("" for break)
record_turn(state, parsed, handled, no_progress) ==
    IF parsed.err \in handled
    THEN [state EXCEPT !.pos = parsed.pos, !.done = TRUE, !.caught = parsed.err,
                       !.log = state.log \o parsed.log]
    ELSE IF parsed.err # ""
    THEN [state EXCEPT !.pos = parsed.pos, !.done = TRUE, !.err = parsed.err,
                       !.log = state.log \o parsed.log]
    ELSE IF parsed.pos = state.pos
    THEN [state EXCEPT !.items = Append(state.items, parsed.out), !.done = TRUE,
                       !.err = no_progress, !.log = state.log \o parsed.log,
                       !.blocks = Append(state.blocks, parsed.blocks)]
    ELSE [state EXCEPT !.pos = parsed.pos, !.items = Append(state.items, parsed.out),
                       !.log = state.log \o parsed.log,
                       !.blocks = Append(state.blocks, parsed.blocks)]

-----------------------------------------------------------------------------
(* Data unit 0x40, src/darc/travel_time.py *)

TRAVEL_TIME == 0
TT_BASIC_EXT1 == 60
TT_BASIC_EXT1_EXT2 == 61
PER_LINK_BASIC_EXT1 == 1

travel_time_parse_ext1(stream, r) == u(stream, r, <<8, 8>>)

travel_time_parse_ext2(stream, r) == u(stream, r, <<8>>)

\* _parse_form0 after byte = reader.u(8)
travel_time_form0_flag(stream, r) ==
    IF r.err # "" THEN r
    ELSE IF r.out[1] % 64 <= 59 THEN r
    ELSE IF r.out[1] % 64 = TT_BASIC_EXT1 THEN travel_time_parse_ext1(stream, r)
    ELSE IF r.out[1] % 64 = TT_BASIC_EXT1_EXT2
    THEN travel_time_parse_ext2(stream, travel_time_parse_ext1(stream, r))
    ELSE r

travel_time_parse_form0(stream, r) == travel_time_form0_flag(stream, u(stream, r, <<8>>))

\* nibble = r.u(4); _parse_form1(r, nibble)
travel_time_form1_flag(stream, r) ==
    IF r.err # "" THEN r
    ELSE IF (r.out[1] \div 4) % 4 = PER_LINK_BASIC_EXT1
    THEN travel_time_parse_ext1(stream, r)
    ELSE r

travel_time_parse_form1(stream, r) == travel_time_form1_flag(stream, u(stream, r, <<4>>))

travel_time_parse_record(stream, r, provide_form) ==
    IF provide_form = TRAVEL_TIME THEN travel_time_parse_form0(stream, r)
    ELSE travel_time_parse_form1(stream, r)

\* the record parsers are called outside any handler
travel_time_record(state, parsed) ==
    IF parsed.err # ""
    THEN [state EXCEPT !.pos = parsed.pos, !.done = TRUE, !.err = parsed.err]
    ELSE [state EXCEPT !.pos = parsed.pos, !.items = Append(state.items, parsed.out)]

\* for _ in range(num_records): records.append(...)
travel_time_records(stream, start, provide_form, num_records) ==
    LET Body(acc, i) ==
            IF acc.done THEN acc
            ELSE Logged("records", acc,
                        travel_time_record(
                            acc, travel_time_parse_record(stream, Reader(acc.pos),
                                                          provide_form)))
    IN  ForRange(Body, start, 1, num_records)

\* from_generic after the four header bytes
travel_time_after_header(stream, header) ==
    IF header.err # "" THEN [LoopState(header.pos) EXCEPT !.done = TRUE, !.err = header.err]
    ELSE IF header.out[4] = 1 THEN LoopState(header.pos)
    ELSE travel_time_records(stream, LoopState(header.pos), header.out[1],
                             IF header.out[3] = 1 THEN 1
                             ELSE header.out[5] * 256 + header.out[6])

\* TravelTimeDataUnit.from_generic of a unit with this data_unit_data
travel_time_from_generic(stream) ==
    travel_time_after_header(stream, u(stream, Reader(0), <<1, 1, 1, 1, 4, 8, 16>>))

-----------------------------------------------------------------------------
(* Data unit 0x41, src/darc/restriction_accident.py *)

BASIC_EXT1 == 1
BASIC_EXT1_EXT2 == 2

\* basics.append(RestrictionAccidentBasicInfo(...)): the kind of the block
\* and its continuous_links (none for None)
BasicInfo(kind, continuous_links, parsed) ==
    IF parsed.err # "" THEN parsed
    ELSE [parsed EXCEPT !.blocks = Append(parsed.blocks,
                                          [kind |-> kind,
                                           continuous_links |-> continuous_links])]

restriction_parse_start(stream, r) ==
    BasicInfo("start", <<>>,
              block_name(stream, u(stream, r, <<1, 1, 2, 4, 8>>), Len(r.out)))

restriction_parse_end(stream, r) ==
    BasicInfo("end", <<>>,
              block_name(stream, block_coords(stream, u(stream, r, <<1, 1, 2, 4, 8>>), Len(r.out)), Len(r.out)))

\* the via block read, cont_links the value after its five first fields
restriction_via_info(base, parsed) ==
    IF parsed.err # "" THEN parsed
    ELSE BasicInfo("via", <<parsed.out[base + 6]>>, parsed)

restriction_parse_via(stream, r) ==
    restriction_via_info(
        Len(r.out),
        block_name(stream, block_coords(stream, u(stream, r, <<1, 1, 2, 4, 8, 8>>), Len(r.out)), Len(r.out)))

\* the reader and the links of the record not yet covered
ViaState(r, remaining) == [r |-> r, remaining |-> remaining]

\* every via block counted for one link: remaining -= 1
restriction_via_covered_one_link(st, via) ==
    IF via.err # ""
    THEN ViaState(WithTurn(via, Turn("via", st.r.pos, via.pos, TRUE, 0)), st.remaining)
    ELSE ViaState(WithTurn(via, Turn("via", st.r.pos, via.pos, FALSE, 0)),
                  st.remaining - 1)

\* remaining -= covered; if remaining < 0: raise BitstreamParseError
restriction_via_covered(st, via) ==
    IF via.err # ""
    THEN ViaState(WithTurn(via, Turn("via", st.r.pos, via.pos, TRUE, 0)), st.remaining)
    ELSE IF st.remaining - (via.out[Len(st.r.out) + 6] + 1) < 0
    THEN ViaState(WithTurn([via EXCEPT !.err = "BitstreamParseError"],
                           Turn("via", st.r.pos, via.pos, TRUE, 0)),
                  st.remaining)
    ELSE ViaState(WithTurn(via, Turn("via", st.r.pos, via.pos, FALSE, 0)),
                  st.remaining - (via.out[Len(st.r.out) + 6] + 1))

\* while remaining > 0: via, covered = _parse_via(rdr)
restriction_via_loop(stream, start) ==
    LET Body(acc, i) ==
            IF acc.r.err # "" \/ acc.remaining <= 0 \/ Stuck(acc.r.log) THEN acc
            ELSE restriction_via_covered(acc, restriction_parse_via(stream, acc.r))
    IN  ForRange(Body, start, 1, start.remaining)

\* 2) end block if any
restriction_end_block(stream, r) ==
    IF r.err # "" THEN r
    ELSE IF r.out[2] - 1 >= 1 THEN restriction_parse_end(stream, r)
    ELSE r

\* 3) via blocks
restriction_via_blocks(stream, r) ==
    IF r.err # "" THEN r
    ELSE restriction_via_loop(
             stream, ViaState(r, IF r.out[2] - 1 >= 1 THEN r.out[2] - 2
                                 ELSE r.out[2] - 1)).r

\* 4) extensions (once)
restriction_ext1(stream, r) ==
    IF r.err # "" THEN r
    ELSE IF r.out[1] \in {BASIC_EXT1, BASIC_EXT1_EXT2}
    THEN u(stream, r, <<8, 8, 2, 6, 2, 6>>)
    ELSE r

restriction_ext2(stream, r) ==
    IF r.err # "" THEN r
    ELSE IF r.out[1] = BASIC_EXT1_EXT2
    THEN u(stream, r, <<1, 7, 4, 4, 5, 5, 6, 5, 5, 6>>)
    ELSE r

\* RestrictionAccidentDataUnit._parse_record
restriction_parse_record(stream, r) ==
    restriction_ext2(stream,
        restriction_ext1(stream,
            restriction_via_blocks(stream,
                restriction_end_block(stream,
                    restriction_parse_start(stream,
                        u(stream, r, <<2, 6, 4, 4, 2, 6>>))))))

\* one turn of the while loop of from_generic
restriction_iteration(stream, state) ==
    record_turn(state, restriction_parse_record(stream, Reader(state.pos)),
                {"BitstreamParseError"}, "")

\* RestrictionAccidentDataUnit.from_generic
restriction_from_generic(stream) ==
    WhileReading(restriction_iteration, "records", stream, LoopState(0))

-----------------------------------------------------------------------------
(* Data unit 0x42, src/darc/parking.py *)

parking_entrance(stream, r, base) ==
    IF r.err # "" THEN r
    ELSE IF r.out[base + 1] = 1 THEN u(stream, r, <<16, 16>>)
    ELSE r

\* ParkingDataUnit._parse_ext1
parking_parse_ext1(stream, r) ==
    Wrapped(block_name(stream,
                       parking_entrance(stream, u(stream, r, <<1, 1, 2, 12, 1, 7>>),
                                        Len(r.out)),
                       Len(r.out)))

\* ParkingDataUnit._parse_ext2
parking_parse_ext2(stream, r) ==
    Wrapped(u(stream, r, <<4, 4, 3, 2, 3, 2, 3, 11, 5, 3, 5, 3>>))

parking_ext1(stream, r) ==
    IF r.err # "" THEN r
    ELSE IF r.out[1] \in {BASIC_EXT1, BASIC_EXT1_EXT2} THEN parking_parse_ext1(stream, r)
    ELSE r

parking_ext2(stream, r) ==
    IF r.err # "" THEN r
    ELSE IF r.out[1] = BASIC_EXT1_EXT2 THEN parking_parse_ext2(stream, r)
    ELSE r

\* ParkingDataUnit._parse_record
parking_parse_record(stream, r) ==
    Wrapped(parking_ext2(stream,
                parking_ext1(stream,
                    u(stream,
                      pad(stream, u(stream, r, <<2, 3, 1>>), 2, "BitstreamParseError"),
                      <<16, 16>>))))

parking_iteration(stream, state) ==
    record_turn(state, parking_parse_record(stream, Reader(state.pos)),
                {"BitstreamParseError"}, "BitstreamParseError")

\* ParkingDataUnit.from_generic
parking_from_generic(stream) ==
    WhileReading(parking_iteration, "records", stream, LoopState(0))

-----------------------------------------------------------------------------
(* Data unit 0x43, src/darc/section_tt.py *)

MODE_RESERVED_2 == 2
MODE_RESERVED_3 == 3

\* SectionTravelTimeDataUnit._parse_point
section_parse_point(stream, r) ==
    block_name(stream, block_coords(stream, u(stream, r, <<1, 1, 2, 4, 8>>), Len(r.out)), Len(r.out))

\* start_pt, end_pt and max(link_count - 2, 0) vias
section_parse_points(stream, r, link_count) ==
    LET Body(acc, i) == section_parse_point(stream, acc)
    IN  ForRange(Body, r, 1, IF link_count > 2 THEN link_count ELSE 2)

\* the points of a route block, link_count read last
section_route_points(stream, r) ==
    IF r.err # "" THEN r
    ELSE section_parse_points(stream, r, r.out[Len(r.out)])

\* one route block of an alt-route group
section_parse_route(stream, r) ==
    IF r.err # "" THEN r
    ELSE section_route_points(stream, u(stream, align_byte(stream, u(stream, r, <<5, 6>>)), <<8>>))

\* SectionTravelTimeDataUnit._parse_alt_group after alt_cnt and the
\* reserved bits
section_alt_routes(stream, r) ==
    LET Body(acc, i) == section_parse_route(stream, acc)
    IN  IF r.err # "" THEN r
        ELSE ForRange(Body, r, 1, r.out[Len(r.out) - 1])

\* return AltRouteGroup(alt_cnt, routes): one route per turn of the loop
AltRouteGroup(base, parsed) ==
    IF parsed.err # "" THEN parsed
    ELSE [parsed EXCEPT !.blocks = Append(parsed.blocks,
                                          [alt_count |-> parsed.out[base + 1],
                                           routes |-> parsed.out[base + 1]])]

section_parse_alt_group(stream, r) ==
    AltRouteGroup(Len(r.out), section_alt_routes(stream, u(stream, r, <<5, 3>>)))

\* the alt-route-group loop was left
AltLeft(r) ==
    /\ r.log # <<>>
    /\ r.log[Len(r.log)].loop = "alt_route_groups"
    /\ r.log[Len(r.log)].left

\* one turn of the loop: if reader.pos % 8 == 0 and peek("uint:2") in
\* {0, 1, 2, 3}: break; alt_groups.append(_parse_alt_group(reader))
section_alt_turn(stream, r, group) ==
    IF r.pos % 8 = 0 /\ r.pos + 2 > Len(stream)
    THEN WithTurn([r EXCEPT !.err = "ReadError"],
                  Turn("alt_route_groups", r.pos, r.pos, TRUE, 0))
    ELSE IF r.pos % 8 = 0
    THEN WithTurn(r, Turn("alt_route_groups", r.pos, r.pos, TRUE, 0))
    ELSE WithTurn(group, Turn("alt_route_groups", r.pos, group.pos, group.err # "", 0))

\* while reader.pos < reader.len
section_alt_loop(stream, r) ==
    LET Body(acc, i) ==
            IF acc.err # "" \/ acc.pos >= Len(stream) \/ AltLeft(acc) \/ Stuck(acc.log)
            THEN acc
            ELSE section_alt_turn(stream, acc, section_parse_alt_group(stream, acc))
    IN  ForRange(Body, r, 1, Len(stream) + 1)

\* Optional Alt-route groups (extension-1)
section_alt_groups(stream, r) ==
    IF r.err # "" THEN r
    ELSE IF r.out[1] = BASIC_EXT1 /\ r.pos < Len(stream) THEN section_alt_loop(stream, r)
    ELSE r

\* _parse_segment after the three bytes of the route header
section_after_header(stream, r) ==
    IF r.err # "" THEN r
    ELSE IF r.out[1] \in {MODE_RESERVED_2, MODE_RESERVED_3}
    THEN [r EXCEPT !.pos = Len(stream)]
    ELSE section_alt_groups(stream, section_parse_points(stream, r, r.out[6]))

\* SectionTravelTimeDataUnit._parse_segment
section_parse_segment(stream, r) ==
    section_after_header(stream, u(stream, r, <<2, 1, 5, 2, 6, 8>>))

section_iteration(stream, state) ==
    record_turn(state, section_parse_segment(stream, Reader(state.pos)),
                {"BitstreamParseError", "ReadError", "ValueError"}, "")

\* SectionTravelTimeDataUnit.from_generic
section_from_generic(stream) ==
    WhileReading(section_iteration, "records", stream, LoopState(0))

-----------------------------------------------------------------------------
(* Data groups pushed into the L5 decoder: a data header, then the first   *)
(* cut bytes of up to MaxUnitBytes bytes that are separators, padding,     *)
(* sizes and data.  Data units given to the typed decoders: the first cut  *)
(* bytes of a payload of up to MaxRecords records.                         *)

MaxUnitBytes == 6

UnitByteValues == {PADDING_BYTE, 1, DATA_UNIT_SEPARATOR}

\* the bytes of a ContinueDataHeader and of a ProgramIndexDataHeader, and
\* the headers they are
GroupHeaders ==
    {[bytes |-> <<INFORMATION_SEPARATOR, 54>>, header |-> DataHeader(54, <<>>)],
     [bytes |-> <<INFORMATION_SEPARATOR, 55, 1>>, header |-> DataHeader(55, <<0, 1>>)]}

UnitBytes == UNION {[1..n -> UnitByteValues] : n \in 0..MaxUnitBytes}

CutGroups ==
    UNION {{[decoder |-> "L5DataDecoder", header |-> h, whole |-> w, cut |-> c] :
                h \in GroupHeaders, c \in 0..Len(w)} :
           w \in UnitBytes}

\* data_group.data_group_data of the group pushed
GroupData(group) ==
    BytesOfMessage(group.header.bytes \o SubSeq(group.whole, 1, group.cut))

\* the same group had it arrived whole
WholeGroupData(group) == BytesOfMessage(group.header.bytes \o group.whole)

MaxRecords == 2

Flatten(seqs) ==
    LET Body(acc, i) == acc \o seqs[i]
    IN  ForRange(Body, <<>>, 1, Len(seqs))

RecordLists(records) == UNION {[1..n -> records] : n \in 0..MaxRecords}

\* form 0 records: a quick travel time, one with Ext-1, one with Ext-1
\* and Ext-2
TravelTimeRecords == {<<5>>, <<60, 1, 2>>, <<61, 1, 2, 3>>}

\* a header that counts the records before them; two form 1 records, the
\* second with Ext-1; one record for five links; a unit of the reserved
\* mode
TravelTimePayloads ==
    {<<0, Len(l), 0, 0>> \o Flatten(l) : l \in RecordLists(TravelTimeRecords)}
        \cup {<<128, 2, 0, 0, 4, 1, 2>>, <<32, 5, 0, 0, 5>>, <<16, 1, 0, 0>>}

\* no link; one link; one link with a name; four links with a meshed end
\* block, a via block for two links, Ext-1 and Ext-2; four links with two
\* via blocks
RestrictionRecords ==
    {<<0, 0, 0, 0, 5>>,
     <<1, 0, 0, 0, 5>>,
     <<1, 0, 0, 64, 5, 2, 65, 66>>,
     <<132, 17, 3, 0, 1, 128, 2, 7, 8, 0, 3, 1, 9, 9, 9, 9, 1, 2, 3, 4, 5, 6>>,
     <<4, 0, 0, 0, 1, 0, 2, 0, 3, 0, 0, 4, 0>>}

RestrictionPayloads == {Flatten(l) : l \in RecordLists(RestrictionRecords)}

\* a basic record; one with a named Ext-1; one with a meshed Ext-1 and
\* Ext-2
ParkingRecords ==
    {<<0, 18, 52, 86, 120>>,
     <<64, 0, 1, 0, 2, 64, 5, 7, 1, 65>>,
     <<128, 0, 1, 0, 2, 128, 5, 7, 0, 3, 0, 4, 1, 2, 3, 4, 5, 6>>}

ParkingPayloads == {Flatten(l) : l \in RecordLists(ParkingRecords)}

\* a route of two points; a route with Ext-1 of three points, one named
\* and one meshed
SectionSegments ==
    {<<0, 0, 2, 0, 1, 0, 2>>,
     <<64, 5, 3, 0, 1, 64, 2, 1, 65, 128, 3, 7, 8>>}

\* a segment of a reserved mode takes the rest of the payload
ReservedSegment == <<128, 0, 0>>

\* the segment with Ext-1, the one whose alt-route groups may follow
Ext1Segment == <<64, 5, 3, 0, 1, 64, 2, 1, 65, 128, 3, 7, 8>>

\* an alt-route group of one route of two points (hour 1, minute 1), and
\* one of no route
AltGroups == {<<8, 8, 32, 2, 0, 1, 0, 2>>, <<0>>}

AltGroupLists == UNION {[1..n -> AltGroups] : n \in 1..MaxRecords}

SectionPayloads ==
    {Flatten(l) \o tail : l \in RecordLists(SectionSegments),
                          tail \in {<<>>, ReservedSegment}}
        \cup {Ext1Segment \o Flatten(g) : g \in AltGroupLists}

CutPayloads(decoder, payloads) ==
    UNION {{[decoder |-> decoder, whole |-> w, cut |-> c] : c \in 0..Len(w)} :
           w \in payloads}

CutUnits ==
    CutPayloads("TravelTimeDataUnit", TravelTimePayloads)
        \cup CutPayloads("RestrictionAccidentDataUnit", RestrictionPayloads)
        \cup CutPayloads("ParkingDataUnit", ParkingPayloads)
        \cup CutPayloads("SectionTravelTimeDataUnit", SectionPayloads)

\* generic.data_unit_data of the unit decoded
UnitData(unit) == BytesOfMessage(SubSeq(unit.whole, 1, unit.cut))

\* the same unit had it arrived whole
WholeUnitData(unit) == BytesOfMessage(unit.whole)

\* from_generic of the class named
from_generic(decoder, stream) ==
    CASE decoder = "TravelTimeDataUnit" -> travel_time_from_generic(stream)
      [] decoder = "RestrictionAccidentDataUnit" -> restriction_from_generic(stream)
      [] decoder = "ParkingDataUnit" -> parking_from_generic(stream)
      [] decoder = "SectionTravelTimeDataUnit" -> section_from_generic(stream)

GroupInit ==
    /\ call_input \in CutGroups \cup CutUnits
    /\ call_result = <<>>

\* L5DataDecoder.push_data_group(data_group)
PushDataGroup ==
    /\ call_result = <<>>
    /\ call_input.decoder = "L5DataDecoder"
    /\ call_result' = <<push_data_group1(GroupData(call_input))>>
    /\ UNCHANGED <<frameVars, blockVars, l4Vars, call_input, pipeVars, storeVars>>

\* TravelTimeDataUnit.from_generic(generic)
TravelTimeFromGeneric ==
    /\ call_result = <<>>
    /\ call_input.decoder = "TravelTimeDataUnit"
    /\ call_result' = <<travel_time_from_generic(UnitData(call_input))>>
    /\ UNCHANGED <<frameVars, blockVars, l4Vars, call_input, pipeVars, storeVars>>

\* RestrictionAccidentDataUnit.from_generic(generic)
RestrictionAccidentFromGeneric ==
    /\ call_result = <<>>
    /\ call_input.decoder = "RestrictionAccidentDataUnit"
    /\ call_result' = <<restriction_from_generic(UnitData(call_input))>>
    /\ UNCHANGED <<frameVars, blockVars, l4Vars, call_input, pipeVars, storeVars>>

\* ParkingDataUnit.from_generic(generic)
ParkingFromGeneric ==
    /\ call_result = <<>>
    /\ call_input.decoder = "ParkingDataUnit"
    /\ call_result' = <<parking_from_generic(UnitData(call_input))>>
    /\ UNCHANGED <<frameVars, blockVars, l4Vars, call_input, pipeVars, storeVars>>

\* SectionTravelTimeDataUnit.from_generic(generic)
SectionTravelTimeFromGeneric ==
    /\ call_result = <<>>
    /\ call_input.decoder = "SectionTravelTimeDataUnit"
    /\ call_result' = <<section_from_generic(UnitData(call_input))>>
    /\ UNCHANGED <<frameVars, blockVars, l4Vars, call_input, pipeVars, storeVars>>

GroupNext ==
    \/ PushDataGroup
    \/ TravelTimeFromGeneric
    \/ RestrictionAccidentFromGeneric
    \/ ParkingFromGeneric
    \/ SectionTravelTimeFromGeneric

-----------------------------------------------------------------------------
(* __detected_bic on its own: a decoder in the search phase whose BIC      *)
(* register holds any 16-bit value and whose allowable_bic_errors (a       *)
(* public attribute) is any value up to MaxBicErrors.                      *)

MaxBicErrors == 5

BicInit ==
    /\ current_bic \in 0..BIC_MASK
    /\ allowable_bic_errors \in 0..MaxBicErrors
    /\ data_buffer = <<>>
    /\ lfsr_state = LFSR_INITIAL
    /\ NothingPushed

\* one call self.__detected_bic()
DetectBic ==
    /\ bic_detected = <<>>
    /\ bic_detected' = <<detected_bic(current_bic, allowable_bic_errors)>>
    /\ UNCHANGED <<frameVars, decoderVars, block_result, last_input, noise,
                   tx_count, tx_bic, tx_word, tx_flip, tx_pos, tx_sync, l4Vars,
                   callVars, pipeVars, storeVars>>

BicNext == DetectBic

-----------------------------------------------------------------------------
(* decoder_core.DecoderPipeline, src/decoder_core.py.  The class is a      *)
(* dataclass whose five fields have the defaults L2BlockDecoder(),         *)
(* L2FrameDecoder(), L3DataPacketDecoder(), L4DataGroupDecoder() and       *)
(* L5DataDecoder(): Python evaluates a default once, when the class        *)
(* statement runs, so the class owns one object of each decoder class and  *)
(* DecoderPipeline() stores these same objects in every instance.  The     *)
(* heap maps the name of an object to its state; the L3 and L5 decoders    *)
(* have no fields.                                                         *)

\* the objects the defaults of the fields are, after the class statement
ClassDefaults ==
    [l2_block |-> Decoder(0, <<>>, LFSR_INITIAL, DEFAULT_BIC_ERROR_TOLERANCE),
     l2_frame |-> <<>>,
     l4_group |-> NoBuffers]

\* DecoderPipeline(): every field is set to its default, the object the
\* class created; no decoder is constructed
DecoderPipeline == [l2_block |-> "l2_block", l2_frame |-> "l2_frame", l4_group |-> "l4_group"]

\* the decoders an instance reaches through its fields
PipelineState(objects, pipeline) ==
    [l2_block |-> objects[pipeline.l2_block],
     l2_frame |-> objects[pipeline.l2_frame],
     l4_group |-> objects[pipeline.l4_group]]

\* the heap after a call left the decoders of this instance in state
StoreState(objects, pipeline, state) ==
    [o \in DOMAIN objects |->
        IF o = pipeline.l2_block THEN state.l2_block
        ELSE IF o = pipeline.l2_frame THEN state.l2_frame
        ELSE IF o = pipeline.l4_group THEN state.l4_group
        ELSE objects[o]]

\* what iterating push_bit gave: the pairs yielded and the exception that
\* ended the iteration, "none" when it ran to its end
Iterated(yielded, raised) == [yielded |-> yielded, raised |-> raised]

\* the body of the for loop for one group: push_data_group raises nothing
\* the except clause catches for a group of composition 1 (ReadError is
\* an IndexError), so a ReadError ends the generator
pipeline_group(acc, grp, data_group_data) ==
    IF acc.raised # "none" THEN acc
    ELSE IF push_data_group1(data_group_data).raised
    THEN Iterated(acc.yielded, "ReadError")
    ELSE Iterated(Append(acc.yielded,
                         [grp |-> grp, evt |-> push_data_group1(data_group_data)]),
                  "none")

\* for grp in ...: try: evt = self.l5_data.push_data_group(grp) ...
pipeline_groups(groups, contents) ==
    LET Body(acc, i) == pipeline_group(acc, groups[i], contents[i])
    IN  ForRange(Body, Iterated(<<>>, "none"), 1, Len(groups))

\* push_bit once the frame decoder returned: frm is falsy, or the frame
\* goes through push_frame (data_packets are the packets cut from its
\* blocks) and push_data_packets, and the groups through the loop
pipeline_after_frame(state, block_decoder, framed, data_packets, contents) ==
    IF framed.ret.status = "raise"
    THEN [state |-> [l2_block |-> block_decoder, l2_frame |-> framed.block_buffer,
                     l4_group |-> state.l4_group],
          result |-> Iterated(<<>>, "ValueError")]
    ELSE IF framed.ret.status = "none"
    THEN [state |-> [l2_block |-> block_decoder, l2_frame |-> framed.block_buffer,
                     l4_group |-> state.l4_group],
          result |-> Iterated(<<>>, "none")]
    ELSE [state |-> [l2_block |-> block_decoder, l2_frame |-> framed.block_buffer,
                     l4_group |-> push_data_packets(state.l4_group, data_packets).buffers],
          result |-> pipeline_groups(
                         push_data_packets(state.l4_group, data_packets).groups,
                         contents)]

\* push_bit once the block decoder returned: blk is falsy (None), or the
\* block goes to the frame decoder
pipeline_after_block(state, pushed, columns_ok, data_packets, contents) ==
    IF pushed.ret.kind = "none"
    THEN [state |-> [l2_block |-> pushed.d, l2_frame |-> state.l2_frame,
                     l4_group |-> state.l4_group],
          result |-> Iterated(<<>>, "none")]
    ELSE pipeline_after_frame(state, pushed.d,
                              push_block(state.l2_frame, pushed.ret, columns_ok),
                              data_packets, contents)

\* list(pipeline.push_bit(bit)): the decoders of the instance after the
\* iteration and what it gave.  columns_ok, data_packets and contents are
\* what the bits of a completed frame decode to.
pipeline_push_bit(state, bit, columns_ok, data_packets, contents) ==
    pipeline_after_block(state, push_bit(state.l2_block, bit), columns_ok,
                         data_packets, contents)

-----------------------------------------------------------------------------
(* Two pipelines, each fed its own bit stream: the lines of blocks in the  *)
(* order of a frame.  The pipelines start as the constructor leaves them,  *)
(* or one bit before the end of a frame: 271 blocks accepted and 271 bits  *)
(* of the payload of the last block collected.  What the 190 information   *)
(* blocks of a completed frame carry is chosen when the frame completes:   *)
(* whether every column can be corrected, up to MaxFramePackets packets of *)
(* composition 1 that matter to the L4 decoder, and the data_group_data of *)
(* each group they complete.  The first stream runs for MaxPipelineBits    *)
(* bits and the second for MaxSecondBits.                                  *)

MaxPipelineBits == 18
MaxSecondBits == 2
MaxFramePackets == 2

Pipelines == {"first", "second"}

\* the bits each stream runs for
StreamLength == [first |-> MaxPipelineBits, second |-> MaxSecondBits]

\* the codeword each stream repeats
StreamWord == [first |-> 1, second |-> 2]

\* bit number k of the stream that starts at block number position of a
\* frame, skip bits into it
StreamBit(p, position, skip, k) ==
    TxBit(get_expected_bic(((position - 1 + (skip + k - 1) \div LINE_SIZE) % FRAME_SIZE) + 1),
          StreamWord[p], 0, ((skip + k - 1) % LINE_SIZE) + 1)

\* the block decoder after the first count bits of a line
block_decoder_after(bic, word, count) ==
    LET Body(d, k) == push_bit(d, IntInput(TxBit(bic, word, 0, k))).d
    IN  ForRange(Body, ClassDefaults.l2_block, 1, count)

\* the frame decoder after the first count blocks of a frame
frame_decoder_after(count) ==
    LET Body(buffer, i) ==
            push_block(buffer,
                       IF get_expected_bic(i) = BIC_4 THEN ParityBlock(BIC_4)
                       ELSE InformationBlock(get_expected_bic(i)),
                       TRUE).block_buffer
    IN  ForRange(Body, <<>>, 1, count)

\* the decoders one bit before the end of a frame
LastBitOfFrame ==
    [l2_block |-> block_decoder_after(get_expected_bic(FRAME_SIZE), 1, LINE_SIZE - 1),
     l2_frame |-> frame_decoder_after(FRAME_SIZE - 1),
     l4_group |-> NoBuffers]

\* where the streams start: (heap, block of the frame, bits into its line)
StreamStarts ==
    {[objects |-> ClassDefaults, position |-> 1, skip |-> 0],
     [objects |-> LastBitOfFrame, position |-> FRAME_SIZE, skip |-> LINE_SIZE - 1]}

FramePackets ==
    {L3DataPacket(TRANSMISSION_1_MODE, e, 0, n) : e \in {0, 1}, n \in {0, 1}}

FramePacketBatches == UNION {[1..n -> FramePackets] : n \in 0..MaxFramePackets}

\* data_group_data of a group: one byte, two bytes that are no header, a
\* header and a data unit
GroupContents ==
    {BytesOfMessage(<<INFORMATION_SEPARATOR>>),
     BytesOfMessage(<<INFORMATION_SEPARATOR, 0>>),
     BytesOfMessage(<<INFORMATION_SEPARATOR, 54, DATA_UNIT_SEPARATOR, 0, 0, 0>>)}

FrameContents == [1..MaxFramePackets -> GroupContents]

\* what a completed frame decodes to
DecodedFrames ==
    {[columns_ok |-> c, data_packets |-> d, contents |-> g] :
        c \in BOOLEAN, d \in FramePacketBatches, g \in FrameContents}

\* the next valid bit completes a frame
CompletesFrame(state) ==
    /\ Len(state.l2_frame) = FRAME_SIZE - 1
    /\ Len(state.l2_block.data_buffer) = BLOCK_SIZE - 1

\* what the frame the next bit completes decodes to; when it completes
\* none, nothing is decoded
FramesNow(state) ==
    IF CompletesFrame(state) THEN DecodedFrames
    ELSE {[columns_ok |-> TRUE, data_packets |-> <<>>, contents |-> <<>>]}

PipelinesInit ==
    /\ heap = ClassDefaults
    /\ pipelines = [p \in Pipelines |-> DecoderPipeline]
    /\ pipe_sent = [p \in Pipelines |-> 0]
    /\ pipe_result = [p \in Pipelines |-> Iterated(<<>>, "none")]
    /\ pipe_seen = [p \in Pipelines |-> [start |-> 1, skip |-> 0, state |-> ClassDefaults]]

\* both pipelines constructed; the first may have decoded a stream up to
\* the last bit of a frame
PipelinesStarted ==
    \E start \in StreamStarts :
        /\ heap = start.objects
        /\ pipelines = [p \in Pipelines |-> DecoderPipeline]
        /\ pipe_sent = [p \in Pipelines |-> 0]
        /\ pipe_result = [p \in Pipelines |-> Iterated(<<>>, "none")]
        /\ pipe_seen = [p \in Pipelines |->
                           [start |-> start.position, skip |-> start.skip,
                            state |-> PipelineState(start.objects, DecoderPipeline)]]

\* the call iterated and its outcome recorded
PipelinePushed(p, r) ==
    /\ heap' = StoreState(heap, pipelines[p], r.state)
    /\ pipe_result' = [pipe_result EXCEPT ![p] = r.result]
    /\ pipe_sent' = [pipe_sent EXCEPT ![p] = @ + 1]
    /\ pipe_seen' = [pipe_seen EXCEPT ![p].state = r.state]

\* for _ in pipelines[p].push_bit(bit): pass, bit the next of the stream
PipelinePushBit ==
    \E p \in Pipelines : \E frame \in FramesNow(PipelineState(heap, pipelines[p])) :
        /\ pipe_sent[p] < StreamLength[p]
        /\ PipelinePushed(p,
               pipeline_push_bit(
                   PipelineState(heap, pipelines[p]),
                   IntInput(StreamBit(p, pipe_seen[p].start, pipe_seen[p].skip,
                                      pipe_sent[p] + 1)),
                   frame.columns_ok, frame.data_packets, frame.contents))
        /\ UNCHANGED <<frameVars, blockVars, l4Vars, callVars, pipelines, storeVars>>

PipelineNext == PipelinePushBit

-----------------------------------------------------------------------------
(* ParkingStore, src/parking_store.py.  _data is a dict: its entries in    *)
(* insertion order, each the key, the rounded coordinate and the record.   *)
(* A thread runs one method at a time; the statements of a method outside  *)
(* "with self._lock" interleave freely with the other threads, and so do   *)
(* the steps of the generator __iter__ returns, which its caller drives.   *)
(* list(self._data.items()) copies entry by entry, and an iterator over a  *)
(* dict raises RuntimeError when the size of the dict is no longer the     *)
(* size it had when the iterator was made.                                 *)

MaxCalls == 2

Threads == {"decoder", "web", "reader"}

\* the methods each thread calls: run_decoder stores records, the web
\* application serves the GeoJSON, a third thread iterates over the store
Methods ==
    [decoder |-> {"upsert"}, web |-> {"to_geojson"}, reader |-> {"__iter__"}]

NoThread == "none"

\* the rounded coordinates upsert is called with, and the records
Coords == {<<35, 139>>, <<36, 140>>}

ParkingRecordValues == {"EMPTY", "FULL"}

\* a thread between two calls
Idle ==
    [pc |-> "idle", method |-> "none", key |-> <<>>, record |-> "none", snapshot |-> <<>>,
     used |-> 0, pos |-> 0, returned |-> <<>>, raised |-> "none",
     instants |-> {}, calls |-> 0, locked |-> TRUE]

\* ParkingStore.__init__
StoreInit ==
    /\ store_data = <<>>
    /\ store_lock = NoThread
    /\ threads = [t \in Threads |-> Idle]

\* key = f"P:{lat_r},{lon_r}"
store_key(lat_r, lon_r) == <<"P", lat_r, lon_r>>

Entry(key, coord, record) == [key |-> key, coord |-> coord, record |-> record]

\* the place of key in the dict, 0 when it has none
KeyIndex(data, key) ==
    IF \E i \in 1..Len(data) : data[i].key = key
    THEN CHOOSE i \in 1..Len(data) : data[i].key = key
    ELSE 0

\* self._data[key] = ((lat_r, lon_r), record): a key the dict has keeps
\* its place
setitem(data, key, coord, record) ==
    IF KeyIndex(data, key) = 0 THEN Append(data, Entry(key, coord, record))
    ELSE [data EXCEPT ![KeyIndex(data, key)] = Entry(key, coord, record)]

\* _to_feature(code, coord, rec)
to_feature(entry) ==
    [type |-> "Feature", id |-> entry.key,
     coordinates |-> <<entry.coord[2], entry.coord[1]>>,
     vacancy_status |-> entry.record]

\* features = [self._to_feature(code, *payload) for code, payload in snapshot]
features(snapshot) == [i \in 1..Len(snapshot) |-> to_feature(snapshot[i])] \o <<>>

\* with self._lock: a thread goes on when no thread holds the lock
can_acquire_any(lock) == TRUE

can_acquire(lock) == lock = NoThread

\* a method is called: the thread starts it, and the history of the call
\* starts with the dict as it is
Called(t, method, key, record) ==
    [Idle EXCEPT !.pc = "acquire",
                 !.method = method, !.key = key, !.record = record,
                 !.instants = IF method = "to_geojson" THEN {store_data} ELSE {},
                 !.calls = threads[t].calls,
                 !.locked = threads[t].locked]

\* the threads after a mutation: every call in progress has one more
\* instant of the dict in its history
Mutated(ts, data) ==
    [t \in Threads |->
        IF ts[t].pc = "idle" \/ ts[t].method # "to_geojson" THEN ts[t]
        ELSE [ts[t] EXCEPT !.instants = @ \cup {data}]]

\* a thread calls upsert(lat, lon, record); lat_r, lon_r and key are
\* computed before the lock is taken
CallUpsert ==
    \E t \in Threads, coord \in Coords, record \in ParkingRecordValues :
        /\ "upsert" \in Methods[t]
        /\ threads[t].pc = "idle"
        /\ threads[t].calls < MaxCalls
        /\ threads' = [threads EXCEPT ![t] = Called(t, "upsert", coord, record)]
        /\ UNCHANGED <<frameVars, blockVars, l4Vars, callVars, pipeVars, store_data, store_lock>>

\* a thread calls to_geojson()
CallToGeojson ==
    \E t \in Threads :
        /\ "to_geojson" \in Methods[t]
        /\ threads[t].pc = "idle"
        /\ threads[t].calls < MaxCalls
        /\ threads' = [threads EXCEPT ![t] = Called(t, "to_geojson", <<>>, "none")]
        /\ UNCHANGED <<frameVars, blockVars, l4Vars, callVars, pipeVars, store_data, store_lock>>

\* a thread calls iter(store)
CallIter ==
    \E t \in Threads :
        /\ "__iter__" \in Methods[t]
        /\ threads[t].pc = "idle"
        /\ threads[t].calls < MaxCalls
        /\ threads' = [threads EXCEPT ![t] = Called(t, "__iter__", <<>>, "none")]
        /\ UNCHANGED <<frameVars, blockVars, l4Vars, callVars, pipeVars, store_data, store_lock>>

\* with self._lock: entered
Acquire ==
    \E t \in Threads :
        /\ threads[t].pc = "acquire"
        /\ can_acquire(store_lock)
        /\ store_lock' = t
        /\ threads' = [threads EXCEPT ![t].pc = "locked"]
        /\ UNCHANGED <<frameVars, blockVars, l4Vars, callVars, pipeVars, store_data>>

\* upsert: self._data[key] = ((lat_r, lon_r), record)
UpsertStore ==
    \E t \in Threads :
        /\ threads[t].pc = "locked"
        /\ threads[t].method = "upsert"
        /\ store_data' = setitem(store_data,
                                 store_key(threads[t].key[1], threads[t].key[2]),
                                 threads[t].key, threads[t].record)
        /\ threads' = [Mutated(threads, store_data') EXCEPT
                          ![t].pc = "release",
                          ![t].locked = (threads[t].locked /\ store_lock = t)]
        /\ UNCHANGED <<frameVars, blockVars, l4Vars, callVars, pipeVars, store_lock>>

\* to_geojson: snapshot = list(self._data.items()), one entry of the copy
\* or its end
GeojsonCopy ==
    \E t \in Threads :
        /\ threads[t].pc = "locked"
        /\ threads[t].method = "to_geojson"
        /\ threads' =
               [threads EXCEPT ![t] =
                   IF threads[t].pos < Len(store_data)
                   THEN [@ EXCEPT !.snapshot = Append(@, store_data[threads[t].pos + 1]),
                                  !.pos = @ + 1]
                   ELSE [@ EXCEPT !.pc = "release"]]
        /\ UNCHANGED <<frameVars, blockVars, l4Vars, callVars, pipeVars, store_data, store_lock>>

\* __iter__: the generator expression is made; self._data.values() and
\* the iterator over it are made with it, nothing is read yet
IterMake ==
    \E t \in Threads :
        /\ threads[t].pc = "locked"
        /\ threads[t].method = "__iter__"
        /\ threads' = [threads EXCEPT ![t].pc = "release",
                                      ![t].used = Len(store_data),
                                      ![t].snapshot = store_data]
        /\ UNCHANGED <<frameVars, blockVars, l4Vars, callVars, pipeVars, store_data, store_lock>>

\* with self._lock: left.  upsert returns; to_geojson goes on to build the
\* features; __iter__ returns the generator to its caller
Release ==
    \E t \in Threads :
        /\ threads[t].pc = "release"
        /\ store_lock' = NoThread
        /\ threads' =
               [threads EXCEPT ![t] =
                   IF threads[t].method = "upsert"
                   THEN [@ EXCEPT !.pc = "idle", !.calls = @ + 1]
                   ELSE [@ EXCEPT !.pc = "unlocked"]]
        /\ UNCHANGED <<frameVars, blockVars, l4Vars, callVars, pipeVars, store_data>>

\* to_geojson: the features are built from the snapshot and returned
GeojsonFeatures ==
    \E t \in Threads :
        /\ threads[t].pc = "unlocked"
        /\ threads[t].method = "to_geojson"
        /\ threads' = [threads EXCEPT ![t].pc = "idle",
                                      ![t].returned = features(threads[t].snapshot),
                                      ![t].calls = @ + 1]
        /\ UNCHANGED <<frameVars, blockVars, l4Vars, callVars, pipeVars, store_data, store_lock>>

\* next() of the generator __iter__ returned: the dict iterator raises
\* when the dict changed size, ends after the last entry, or gives the
\* record the dict now holds at its position
iter_next(th, data) ==
    IF Len(data) # th.used
    THEN [th EXCEPT !.pc = "idle", !.raised = "RuntimeError", !.calls = @ + 1]
    ELSE IF th.pos >= Len(data)
    THEN [th EXCEPT !.pc = "idle", !.calls = @ + 1]
    ELSE [th EXCEPT !.returned = Append(@, data[th.pos + 1].record), !.pos = @ + 1]

\* the caller of iter(store) takes the next record
IterNext ==
    \E t \in Threads :
        /\ threads[t].pc = "unlocked"
        /\ threads[t].method = "__iter__"
        /\ threads' = [threads EXCEPT ![t] = iter_next(threads[t], store_data)]
        /\ UNCHANGED <<frameVars, blockVars, l4Vars, callVars, pipeVars, store_data, store_lock>>

StoreNext ==
    \/ CallUpsert
    \/ CallToGeojson
    \/ CallIter
    \/ Acquire
    \/ UpsertStore
    \/ GeojsonCopy
    \/ IterMake
    \/ Release
    \/ GeojsonFeatures
    \/ IterNext

-----------------------------------------------------------------------------
(* Specifications *)

\* no function called on its own
NoCall == call_input = <<>> /\ call_result = <<>>

\* the three decoders as their constructors leave them
DecodersInit == FrameInit /\ BlockInit /\ L4Init /\ PipelinesInit /\ StoreInit

\* every object as its constructor leaves it
Init == DecodersInit /\ NoCall

\* the same, the block decoder with any BIC register and threshold
InitBic == FrameInit /\ BicInit /\ L4Init /\ NoCall /\ PipelinesInit /\ StoreInit

\* blocks pushed into the frame decoder
SpecFrame == Init /\ [][FrameNext]_vars

\* a bit stream pushed into the block decoder
SpecBlock == Init /\ [][BlockNext]_vars

\* a well-formed buffer of composition 1 read and written back
InitGroup1 == DecodersInit /\ Group1Init

SpecGroup1 == InitGroup1 /\ [][Group1Next]_vars

\* the CRC functions called on byte-aligned messages
InitCrc == DecodersInit /\ CrcInit

SpecCrc == InitCrc /\ [][CrcNext]_vars

\* a codeword with a burst error corrected
InitDscc == DecodersInit /\ DsccInit

SpecDscc == InitDscc /\ [][DsccNext]_vars

\* a data header written and read back
InitHeader == DecodersInit /\ HeaderInit

SpecHeader == InitHeader /\ [][HeaderNext]_vars

\* a data group pushed into the L5 decoder
InitGroup == DecodersInit /\ GroupInit

SpecGroup == InitGroup /\ [][GroupNext]_vars

\* __detected_bic called on any register value
SpecBic == InitBic /\ [][BicNext]_vars

\* packets pushed into the L4 data-group decoder
SpecL4 == Init /\ [][L4Next]_vars

\* two pipelines, fresh or at the last bit of a frame
InitPipeline == FrameInit /\ BlockInit /\ L4Init /\ NoCall /\ PipelinesStarted /\ StoreInit

SpecPipeline == InitPipeline /\ [][PipelineNext]_vars

\* the threads of the map server on one ParkingStore
SpecStore == Init /\ [][StoreNext]_vars

-----------------------------------------------------------------------------
(* Properties of the L2 frame decoder (SpecFrame)                          *)

\* The position table as the specification states it (section 4.5).
Bic4Positions ==
    {p \in 14..136 : p % 3 = 1} \cup {p \in 150..272 : p % 3 = 2}

TableBic(p) ==
    IF p \in 1..13 THEN BIC_1
    ELSE IF p \in 137..149 THEN BIC_2
    ELSE IF p \in Bic4Positions THEN BIC_4
    ELSE BIC_3

ThirteenBic1 == [i \in 1..13 |-> InformationBlock(BIC_1)]

\* C1: push_block returns a frame only on the call that is the 272nd
\* consecutive accepted block since the buffer was last empty; a run never
\* grows past 272 (so it yields at most one frame), and after the 272nd
\* accepted block the buffer is empty.
C1_FrameOnlyOn272nd ==
    /\ frame_result.status = "frame" => run_len = FRAME_SIZE
    /\ run_len <= FRAME_SIZE
    /\ run_len = FRAME_SIZE => block_buffer = <<>> /\ get_buffer_size = 0
    /\ run_len < FRAME_SIZE => frame_result = NoFrame

C1_Witness ==
    /\ frame_result.status = "frame"
    /\ run_len = FRAME_SIZE
    /\ block_buffer = <<>>

\* C2 (as stated): after 13 accepted BIC_1 blocks, a block with block_id
\* BIC_3 resets the buffer (no frame returned, get_buffer_size() == 0).
C2_Bic3ResetsAfter13 ==
    (prev_size = 13 /\ pushed_block.block_id = BIC_3)
        => (block_buffer = <<>> /\ frame_result = NoFrame)

\* C2 (amended): after 13 accepted BIC_1 blocks, a block whose block_id is
\* not BIC_3 resets the buffer (no frame, size 0) and a BIC_1 block pushed
\* next starts a fresh sequence at position 1; a BIC_3 block is the one
\* expected at position 14 and is accepted (size 14).
C2_Amended ==
    [][ /\ (block_buffer = ThirteenBic1 /\ pushed_block'.block_id # BIC_3)
            => (block_buffer' = <<>> /\ frame_result' = NoFrame)
        /\ (block_buffer = ThirteenBic1 /\ pushed_block'.block_id = BIC_3)
            => (Len(block_buffer') = 14 /\ frame_result' = NoFrame)
        /\ (prev_size = 13 /\ block_buffer = <<>> /\ pushed_block'.block_id = BIC_1)
            => (block_buffer' = <<InformationBlock(BIC_1)>>
                /\ frame_result' = NoFrame)
      ]_vars

C2_Witness ==
    /\ prev_size = 13
    /\ pushed_block = ParityBlock(BIC_4)
    /\ block_buffer = <<>>
    /\ run_len = 0
    /\ frame_result = NoFrame

\* C3: a block whose block_id differs from the BIC expected for position
\* len(buffer)+1 returns no frame and leaves the buffer empty (neither the
\* buffered blocks nor the offending block are kept), and the block after
\* it is validated as position 1 (kept exactly when it is a BIC_1 block).
C3_MismatchDiscardsAll ==
    [][ /\ pushed_block'.block_id # TableBic(Len(block_buffer) + 1)
            => (block_buffer' = <<>> /\ frame_result' = NoFrame)
        /\ (pushed_block.block_id # TableBic(prev_size + 1))
            => (block_buffer' = IF pushed_block'.block_id = TableBic(1)
                                THEN <<pushed_block'>> ELSE <<>>)
      ]_vars

C3_Witness ==
    /\ prev_size = 200
    /\ pushed_block.block_id # TableBic(201)
    /\ block_buffer = <<>>
    /\ frame_result = NoFrame

\* C4: between push_block calls the buffer holds 0..271 blocks and the
\* block at 1-based position p has the BIC the position table prescribes.
C4_BufferFollowsTable ==
    /\ Len(block_buffer) \in 0..271
    /\ \A p \in 1..Len(block_buffer) : block_buffer[p].block_id = TableBic(p)

C4_Witness ==
    /\ Len(block_buffer) = 271
    /\ block_buffer[271].block_id = BIC_3
    /\ block_buffer[137].block_id = BIC_2
    /\ block_buffer[16].block_id = BIC_4

\* the syndrome is not zero and the syndrome map has no entry for it
Uncorrectable(buffer, syndrome) ==
    /\ syndrome # Zeros(CRC82_WIDTH)
    /\ syndrome_map_hits(syndrome) = {}

\* the call just made was the 272nd accepted block of a frame in which a
\* column cannot be corrected
CompletedWithBadColumn ==
    /\ run_len = FRAME_SIZE
    /\ frame_column # <<>>
    /\ Uncorrectable(frame_column, crc_82_darc(frame_column, BLOCK_SIZE))

\* C17: when the 272nd accepted block completes a frame in which some
\* column has a non-zero syndrome with no entry in the syndrome map,
\* push_block still emits the frame; the failure never shows as an
\* exception or as a missing frame.
C17_FrameStillEmitted ==
    CompletedWithBadColumn => frame_result.status = "frame"

\* what holds instead: the exception of correct_error_dscc_272_190 leaves
\* push_block, no frame is returned and the buffer is reset
C17_FrameRaises ==
    CompletedWithBadColumn => (frame_result = RaisedFrame /\ block_buffer = <<>>)

-----------------------------------------------------------------------------
(* Properties of the L2 block decoder (SpecBlock) *)

\* the transmitted block is an exact BIC_1 followed by an unharmed codeword
ExactBic1Block == tx_bic = BIC_1 /\ tx_flip = 0

\* the information block that descrambling the transmitted payload gives
SentInformation(block) ==
    /\ block.kind = "information"
    /\ block.block_id = BIC_1
    /\ block.data_packet = SubSeq(CODEWORDS[tx_word], 1, PACKET_SIZE)
    /\ is_crc_valid(block)

\* C5 as stated: when the last payload bit of a line made of an exact BIC_1
\* and a valid codeword has been pushed, the call returns the information
\* block with the 176 descrambled bits after the BIC, and no call on an
\* earlier bit of the line returned a block - whatever was pushed before.
C5_EmitsWhateverPrecedes ==
    ExactBic1Block =>
        /\ tx_pos = LINE_SIZE => SentInformation(block_result)
        /\ tx_pos \in 17..(LINE_SIZE - 1) => block_result.kind = "none"

\* C5, amended: the same, provided no BIC was detected when any of the 16
\* bits of the BIC was pushed (the decoder was searching, and no register
\* value made of earlier bits and a prefix of the BIC was within
\* allowable_bic_errors of a BIC).
C5_EmitsWhenSearching ==
    (ExactBic1Block /\ tx_sync) =>
        /\ tx_pos = LINE_SIZE => SentInformation(block_result)
        /\ tx_pos \in 17..(LINE_SIZE - 1) => block_result.kind = "none"

\* a line sent after noise has been received whole and its block returned
C5_Witness ==
    /\ ExactBic1Block
    /\ tx_sync
    /\ tx_count = 1
    /\ tx_pos = LINE_SIZE
    /\ SentInformation(block_result)

\* C6: a call of push_bit with a value that is not the integer 0 or 1
\* returns None and leaves the BIC register, the data buffer, the LFSR and
\* the threshold as they were.
C6_InvalidBitChangesNothing ==
    [][(last_input'.type # "int" \/ last_input'.val \notin {0, 1})
         => (UNCHANGED decoderVars /\ block_result' = NoBlock)]_vars

\* a value that is not a bit has been pushed in the payload phase
C6_Witness ==
    /\ last_input \in InvalidInputs
    /\ ~Searching
    /\ Len(data_buffer) > 0
    /\ block_result = NoBlock

\* the decoder is as __init__ leaves it
FreshDecoder ==
    /\ current_bic = 0
    /\ data_buffer = <<>>
    /\ lfsr_state = LFSR_INITIAL

\* C7: when push_bit has returned a block the decoder is in the freshly
\* constructed state, and the next bit pushed goes to the BIC register,
\* not to the data buffer.
C7_FreshAfterBlock ==
    /\ [](block_result.kind \in {"information", "parity"} => FreshDecoder)
    /\ [][(block_result.kind \in {"information", "parity"}
             /\ last_input'.type = "int" /\ last_input'.val \in {0, 1})
            => /\ data_buffer' = <<>>
               /\ lfsr_state' = LFSR_INITIAL
               /\ current_bic' = last_input'.val]_vars

\* a parity block has been returned
C7_Witness ==
    /\ block_result.kind = "parity"
    /\ block_result.block_id = BIC_4
    /\ tx_pos = LINE_SIZE
    /\ FreshDecoder

\* the 272 bits of the transmitted payload once descrambled: the codeword
\* with the channel errors in it
ReceivedPayload == WithErrors(CODEWORDS[tx_word], tx_flip)

\* the call just made completed, under BIC_4, the buffer of a line whose
\* BIC was received while the decoder was searching, and the buffer cannot
\* be corrected
CompletedUncorrectableParity ==
    /\ tx_bic = BIC_4
    /\ tx_sync
    /\ tx_pos = LINE_SIZE
    /\ Uncorrectable(ReceivedPayload, crc_82_darc(ReceivedPayload, BLOCK_SIZE))

\* C16: when the block decoder completes a 272-bit buffer under BIC_4
\* whose syndrome is not zero and not in the syndrome map, push_bit still
\* returns a parity block for it, and the block carries an integrity flag
\* that is false.
C16_ParityBlockFlaggedInvalid ==
    CompletedUncorrectableParity =>
        /\ block_result.kind = "parity"
        /\ integrity_flags(block_result) # {}
        /\ ~is_crc_valid(block_result)

\* what holds instead: the parity block is returned with the first 190
\* bits of the buffer as they were received, and it has no integrity flag
C16_ParityBlockReturnedUnflagged ==
    CompletedUncorrectableParity =>
        /\ block_result = L2ParityBlock(BIC_4, ReceivedPayload)
        /\ integrity_flags(block_result) = {}

\* a parity block has been returned for a line hit by two distant errors
C16_Reached ==
    /\ CompletedUncorrectableParity
    /\ tx_flip > BLOCK_SIZE
    /\ block_result.kind = "parity"

-----------------------------------------------------------------------------
(* Properties of __detected_bic (SpecBic) *)

BicCandidates == <<BIC_1, BIC_2, BIC_3, BIC_4>>

\* the number of bit positions in which two 16-bit values differ
BitDistance(a, b) ==
    LET x == BitsOfInt(a, 16)
        y == BitsOfInt(b, 16)
    IN  Cardinality({i \in 1..16 : x[i] # y[i]})

\* the distances of the four candidates to the register
CandidateDistances(register) ==
    [n \in 1..4 |-> BitDistance(BicCandidates[n], register)] \o <<>>

\* the candidates nearest to a register at these distances
NearestCandidates(distances) ==
    {n \in 1..4 : \A m \in 1..4 : distances[n] <= distances[m]}

\* the lowest-numbered candidate among the nearest
LowestNearest(distances) ==
    CHOOSE n \in 1..4 :
        /\ \A m \in 1..4 : distances[n] <= distances[m]
        /\ \A m \in 1..(n - 1) : distances[m] > distances[n]

\* the BIC the claim names for a register at these distances
NamedBic(distances, n, threshold) ==
    IF distances[n] <= threshold THEN BicCandidates[n] ELSE NoBic

\* C8: for every 16-bit register value the detected BIC is the candidate at
\* minimum Hamming distance, the lowest-numbered one on ties, if that
\* distance is at most allowable_bic_errors, and no BIC otherwise.
C8_MinDistanceCandidate ==
    bic_detected # <<>> =>
        bic_detected[1] =
            NamedBic(CandidateDistances(current_bic),
                     LowestNearest(CandidateDistances(current_bic)),
                     allowable_bic_errors)

\* a register as near to BIC_2 as to BIC_1, within the threshold, was
\* taken for BIC_1
C8_Witness ==
    /\ bic_detected = <<BIC_1>>
    /\ {1, 2} \subseteq NearestCandidates(CandidateDistances(current_bic))
    /\ BitDistance(BIC_2, current_bic) <= allowable_bic_errors

-----------------------------------------------------------------------------
(* Properties of the L4 data-group decoder (SpecL4) *)

\* the history is the last call: each packet starts from what the one
\* before left, and the call leaves and returns what the last one left
LogIsTheCall ==
    /\ \A i \in 1..(Len(packet_log) - 1) :
           /\ packet_log[i + 1].before = packet_log[i].after
           /\ packet_log[i + 1].groups_before = packet_log[i].groups_after
    /\ packet_log # <<>> =>
           /\ packet_log[1].groups_before = <<>>
           /\ packet_log[Len(packet_log)].after = group_buffers
           /\ packet_log[Len(packet_log)].groups_after = data_groups

\* the key (service_id, data_group_number) of a packet
KeyOf(packet) == <<packet.service_id, packet.data_group_number>>

\* the packet has no open buffer and is not the first of its group
Unattached(e) ==
    /\ KeyOf(e.packet) \notin DOMAIN e.before
    /\ e.packet.data_packet_number # 0

\* the packet is accepted and ends its group
EndsGroup(e) ==
    /\ KeyOf(e.packet) \in DOMAIN e.before \/ e.packet.data_packet_number = 0
    /\ e.packet.end_of_information_flag = 1

\* C9: a packet whose key has no open buffer and whose data_packet_number
\* is not 0 is dropped: no buffer is created for its key, every buffer is
\* as before, and the list of data groups does not grow, also when its
\* end_of_information_flag is 1.
C9_DroppedWithoutFirstPacket ==
    /\ LogIsTheCall
    /\ \A i \in 1..Len(packet_log) :
           Unattached(packet_log[i]) =>
               /\ KeyOf(packet_log[i].packet) \notin DOMAIN packet_log[i].after
               /\ DOMAIN packet_log[i].after = DOMAIN packet_log[i].before
               /\ \A k \in DOMAIN packet_log[i].before :
                      packet_log[i].after[k] = packet_log[i].before[k]
               /\ packet_log[i].groups_after = packet_log[i].groups_before

\* a packet flagged end of information was dropped while the buffer of
\* another key was open
C9_Witness ==
    \E i \in 1..Len(packet_log) :
        /\ Unattached(packet_log[i])
        /\ packet_log[i].packet.end_of_information_flag = 1
        /\ DOMAIN packet_log[i].before # {}
        /\ packet_log[i].after = packet_log[i].before

\* the data group the claim names for the packet of entry e: of
\* composition 2 for ADDITIONAL_INFORMATION and of composition 1 otherwise,
\* built from the buffer of the key followed by the packet's data block
NamedGroup(e, group) ==
    /\ group.kind = IF e.packet.service_id = ADDITIONAL_INFORMATION
                    THEN "L4DataGroup2" ELSE "L4DataGroup1"
    /\ group.service_id = e.packet.service_id
    /\ group.data_group_number = e.packet.data_group_number
    /\ group.buffer =
           (IF KeyOf(e.packet) \in DOMAIN e.before
            THEN e.before[KeyOf(e.packet)] ELSE <<>>) \o <<e.packet.data_block>>

\* exactly one data group, the named one, is added to the list
EmitsOne(e) ==
    /\ Len(e.groups_after) = Len(e.groups_before) + 1
    /\ SubSeq(e.groups_after, 1, Len(e.groups_before)) = e.groups_before
    /\ NamedGroup(e, e.groups_after[Len(e.groups_after)])

\* C10 as stated: an accepted packet with end_of_information_flag 1 has
\* exactly one data group emitted, and after the call no buffer remains
\* for its key.
C10_NoBufferAfterCall ==
    /\ LogIsTheCall
    /\ \A i \in 1..Len(packet_log) :
           EndsGroup(packet_log[i]) =>
               /\ EmitsOne(packet_log[i])
               /\ KeyOf(packet_log[i].packet) \notin DOMAIN group_buffers

\* C10, amended: an accepted packet with end_of_information_flag 1 has
\* exactly one data group emitted, and when that packet has been processed
\* no buffer remains for its key (a later packet of the same call numbered
\* 0 may open a new one).
C10_NoBufferAfterPacket ==
    /\ LogIsTheCall
    /\ \A i \in 1..Len(packet_log) :
           EndsGroup(packet_log[i]) =>
               /\ EmitsOne(packet_log[i])
               /\ KeyOf(packet_log[i].packet) \notin DOMAIN packet_log[i].after

\* one call closed a group of composition 2 made of two packets and a
\* group of composition 1 made of one
C10_Witness ==
    /\ Len(packet_log) = 2
    /\ EndsGroup(packet_log[1])
    /\ EndsGroup(packet_log[2])
    /\ packet_log[1].packet.service_id = ADDITIONAL_INFORMATION
    /\ KeyOf(packet_log[1].packet) \in DOMAIN packet_log[1].before
    /\ packet_log[2].packet.service_id = TRANSMISSION_1_MODE
    /\ Len(data_groups) = 2
    /\ data_groups[1].kind = "L4DataGroup2"
    /\ data_groups[2].kind = "L4DataGroup1"

\* the numbers of the packets whose data blocks make up a buffer
PacketNumbersOf(buffer) == [i \in 1..Len(buffer) |-> buffer[i].payload] \o <<>>

\* 0, 1, ..., n - 1
CountingFromZero(n) == [i \in 1..n |-> i - 1] \o <<>>

\* C11 as stated: every data group emitted is built from the data blocks
\* of the packets numbered 0, 1, ..., N in that order, each exactly once.
C11_BlocksInNumberOrder ==
    \A g \in 1..Len(data_groups) :
        PacketNumbersOf(data_groups[g].buffer)
            = CountingFromZero(Len(data_groups[g].buffer))

\* the entries of the call, from entry first to entry last, whose packet
\* has the key
EntriesOf(key, first, last) ==
    LET HasKey(e) == KeyOf(e.packet) = key
    IN  SelectSeq(SubSeq(packet_log, first, last), HasKey)

\* the data blocks of these entries, in their order
BlocksOf(entries) == [i \in 1..Len(entries) |-> entries[i].packet.data_block] \o <<>>

\* the entries up to entry last at which the buffer of the key was opened
OpenedAt(key, last) ==
    {j \in 1..last : /\ KeyOf(packet_log[j].packet) = key
                     /\ key \notin DOMAIN packet_log[j].before
                     /\ packet_log[j].packet.data_packet_number = 0}

\* the entry among some where the buffer was opened last
LastOf(indexes) == CHOOSE j \in indexes : \A k \in indexes : k <= j

\* the data blocks that arrived for the key since its buffer was opened,
\* in arrival order, up to entry last of the call
ArrivedSinceOpened(key, last) ==
    IF OpenedAt(key, last) # {}
    THEN BlocksOf(EntriesOf(key, LastOf(OpenedAt(key, last)), last))
    ELSE packet_log[1].before[key] \o BlocksOf(EntriesOf(key, 1, last))

\* C11, amended: every data group emitted is built from the data blocks of
\* the packets of its key that arrived since a packet numbered 0 opened the
\* buffer, in arrival order and whatever their numbers, the last being the
\* packet with end_of_information_flag 1; every open buffer starts with the
\* data block of a packet numbered 0.
C11_BlocksInArrivalOrder ==
    /\ LogIsTheCall
    /\ \A k \in DOMAIN group_buffers :
           /\ group_buffers[k] # <<>>
           /\ group_buffers[k][1].payload = 0
    /\ \A i \in 1..Len(packet_log) :
           EndsGroup(packet_log[i]) =>
               /\ Len(packet_log[i].groups_after) = Len(packet_log[i].groups_before) + 1
               /\ packet_log[i].groups_after[Len(packet_log[i].groups_after)].buffer
                      = ArrivedSinceOpened(KeyOf(packet_log[i].packet), i)

\* a packet numbered 0 arrived twice before the packet that ended the
\* group, and the group holds the three data blocks
C11_Witness ==
    /\ Len(data_groups) = 1
    /\ PacketNumbersOf(data_groups[1].buffer) = <<0, 0, 1>>
    /\ Len(packet_log) = 3

-----------------------------------------------------------------------------
(* Properties of L4DataGroup1 (SpecGroup1) *)

\* C12: for every well-formed buffer b of composition 1, also when
\* 6 + data_size is a multiple of 18 bytes,
\* L4DataGroup1.from_buffer(service_id, group_number, b).to_buffer() is b.
C12_RoundTripIsIdentity ==
    call_result # <<>> =>
        /\ ~call_result[1].raised
        /\ call_result[1].buffer = call_input

\* what holds instead: the buffer written back is b when 6 + data_size is
\* no multiple of 18, and b with 18 zero bytes put in before the end byte
\* when it is
C12_RoundTripPadsFullBlock ==
    call_result # <<>> =>
        /\ ~call_result[1].raised
        /\ (COMP1_FIXED_BYTES + comp1_data_size(call_input)) % COMP1_BLOCK_SIZE # 0
               => call_result[1].buffer = call_input
        /\ (COMP1_FIXED_BYTES + comp1_data_size(call_input)) % COMP1_BLOCK_SIZE = 0
               => call_result[1].buffer =
                      SubSeq(call_input, 1, Len(call_input) - 24)
                          \o Zeros(BYTE_SIZE * COMP1_BLOCK_SIZE)
                          \o SubSeq(call_input, Len(call_input) - 23, Len(call_input))

-----------------------------------------------------------------------------
(* Properties of the L5 data headers (SpecHeader) *)

\* C13: for each of the eight header classes and every header h whose
\* fields are within their widths, h.to_buffer() succeeds and the read()
\* of the class, and read_data_header, give back a header equal to h.
C13_HeadersRoundTrip ==
    call_result # <<>> =>
        /\ ~call_result[1].raised
        /\ ~call_result[1].none
        /\ call_result[1].header = call_input

\* what holds instead: the same for the seven classes other than
\* PageDataHeaderB (0x33), whose to_buffer raises for every header
C13_AllButPageDataHeaderB ==
    call_result # <<>> =>
        IF call_input.parameter = 51 THEN call_result[1].raised
        ELSE /\ ~call_result[1].raised
             /\ ~call_result[1].none
             /\ call_result[1].header = call_input

-----------------------------------------------------------------------------
(* Properties of the CRC functions (SpecCrc) *)

\* C14: for CRC-14/DARC, CRC-16/DARC and CRC-82/DARC and every
\* byte-aligned message m, the table-driven function and the bit-by-bit
\* function called with bits = 8 * len(m) return the same value.
C14_TableDrivenIsBitByBit ==
    call_result # <<>> => call_result[1].table_driven = call_result[1].bit_by_bit

\* a message of several bytes with a nonzero CRC-16 computed both ways
C14_Witness ==
    /\ call_result # <<>>
    /\ Len(call_input) = 8 * MaxCrcBytes
    /\ call_result[1].crc = 16
    /\ call_result[1].bit_by_bit # Zeros(CRC16_WIDTH)
    /\ call_result[1].table_driven = call_result[1].bit_by_bit

-----------------------------------------------------------------------------
(* Properties of the DSCC correction (SpecDscc) *)

\* C15: for every codeword c and every burst error e of width w in 1..8
\* placed at any offset 0..(272 - w) of the 272 bits, the bursts touching
\* the first transmitted bit included, correct_error_dscc_272_190(c XOR e)
\* returns c.
C15_EveryBurstCorrected ==
    call_result # <<>> =>
        /\ call_result[1].result = "ok"
        /\ call_result[1].buffer = CODEWORDS[call_input.word]

\* what holds instead: the bursts that leave the first transmitted bit
\* alone are corrected, and those that touch it are not found in the map
C15_BurstsPastFirstBitCorrected ==
    call_result # <<>> =>
        IF call_input.offset < DSCC_LENGTH - call_input.width
        THEN /\ call_result[1].result = "ok"
             /\ call_result[1].buffer = CODEWORDS[call_input.word]
        ELSE call_result[1].result = "raise"

-----------------------------------------------------------------------------
(* Properties of the L5 decoder (SpecGroup) *)

\* the number of items a loop held when it last ended a turn at or before
\* the stream position pos
ItemsBy(log, pos) ==
    LET counts == {0} \cup {log[i].items : i \in {n \in 1..Len(log) : log[n].after <= pos}}
    IN  CHOOSE c \in counts : \A d \in counts : d <= c

\* the data units of the whole group that lie within its first cut bytes
CompleteUnits(whole, group) ==
    SubSeq(whole.data_units, 1,
           ItemsBy(whole.log, 8 * (Len(group.header.bytes) + group.cut)))

\* C18: when reading a data unit of a Comp-1 group hits a read error,
\* parsing stops and push_data_group returns the header with exactly the
\* data units completely read before the error, in stream order; the
\* partial unit is not returned.
C18_ReadErrorKeepsCompleteUnits ==
    (/\ call_result # <<>>
     /\ call_input.decoder = "L5DataDecoder"
     /\ call_result[1].caught = "ReadError") =>
        /\ ~call_result[1].raised
        /\ call_result[1].header = <<call_input.header.header>>
        /\ call_result[1].data_units =
               CompleteUnits(push_data_group1(WholeGroupData(call_input)), call_input)

\* a unit was read whole and the next one was cut short
C18_Witness ==
    /\ call_result # <<>>
    /\ call_input.decoder = "L5DataDecoder"
    /\ call_result[1].caught = "ReadError"
    /\ ~call_result[1].raised
    /\ Len(call_result[1].data_units) = 1
    /\ call_result[1].data_units[1].data = <<>>
    /\ call_input.cut < Len(call_input.whole)

\* C19: every record loop of the data-unit decoders terminates on every
\* finite payload: each turn of _read_data_units, of the from_generic
\* loops of the 0x41, 0x42 and 0x43 units, of the Via-block loop and of the
\* alt-route-group loop either moves the read position forward by at
\* least one bit or leaves the loop.
C19_EveryTurnAdvancesOrLeaves ==
    call_result # <<>> =>
        \A i \in 1..Len(call_result[1].log) :
            \/ call_result[1].log[i].after > call_result[1].log[i].before
            \/ call_result[1].log[i].left

TurnsOf(log, loop, left) ==
    {i \in 1..Len(log) : log[i].loop = loop /\ log[i].left = left}

\* two records were read, one of them with two turns of the Via-block loop
C19_Witness ==
    /\ call_result # <<>>
    /\ call_input.decoder = "RestrictionAccidentDataUnit"
    /\ Cardinality(TurnsOf(call_result[1].log, "via", FALSE)) = 2
    /\ Cardinality(TurnsOf(call_result[1].log, "records", FALSE)) = 2

\* the alt-route-group loop was entered after a segment
C19_AltLoopEntered ==
    /\ call_result # <<>>
    /\ call_input.decoder = "SectionTravelTimeDataUnit"
    /\ TurnsOf(call_result[1].log, "alt_route_groups", TRUE) # {}
    /\ Cardinality(TurnsOf(call_result[1].log, "records", FALSE)) = 2

TypedDecoders ==
    {"TravelTimeDataUnit", "RestrictionAccidentDataUnit", "ParkingDataUnit",
     "SectionTravelTimeDataUnit"}

\* the stream position pos lies inside a record of the whole payload
MidRecord(whole, pos) ==
    \E i \in TurnsOf(whole.log, "records", FALSE) :
        whole.log[i].before < pos /\ pos < whole.log[i].after

\* the records of the whole payload that end at or before pos
CompleteRecords(whole, pos) == SubSeq(whole.items, 1, ItemsBy(whole.log, pos))

\* from_generic on the first cut bytes of the payload raises nothing and
\* returns the records of the payload that lie within them
KeepsCompleteRecords(whole) ==
    MidRecord(whole, 8 * call_input.cut) =>
        /\ call_result[1].err = ""
        /\ call_result[1].items = CompleteRecords(whole, 8 * call_input.cut)

\* C20: for each typed data-unit decoder (0x40, 0x41, 0x42, 0x43), when the
\* payload ends in the middle of a record, including in the middle of an
\* extension or of a length-prefixed name, from_generic does not raise: it
\* returns the unit holding exactly the records that were completely
\* parsed before the truncation.
C20_TruncationKeepsCompleteRecords ==
    (call_result # <<>> /\ call_input.decoder \in TypedDecoders) =>
        KeepsCompleteRecords(from_generic(call_input.decoder, WholeUnitData(call_input)))

\* the same of the 0x42 and 0x43 decoders only
C20_ParkingAndSectionKeepCompleteRecords ==
    (/\ call_result # <<>>
     /\ call_input.decoder \in {"ParkingDataUnit", "SectionTravelTimeDataUnit"}) =>
        KeepsCompleteRecords(from_generic(call_input.decoder, WholeUnitData(call_input)))

\* TravelTimeDataUnit.from_generic never raises
C20_TravelTimeNeverRaises ==
    (call_result # <<>> /\ call_input.decoder = "TravelTimeDataUnit") =>
        call_result[1].err = ""

\* RestrictionAccidentDataUnit.from_generic never raises
C20_RestrictionAccidentNeverRaises ==
    (call_result # <<>> /\ call_input.decoder = "RestrictionAccidentDataUnit") =>
        call_result[1].err = ""

\* the four header bytes of the 0x40 unit decoded
TravelTimeHeader == u(UnitData(call_input), Reader(0), <<1, 1, 1, 1, 4, 8, 16>>)

\* a 0x40 unit was decoded whose info flag is single and whose mode flag
\* is 0, and its record was read
SingleRecordParsed(header) ==
    /\ call_result # <<>>
    /\ call_input.decoder = "TravelTimeDataUnit"
    /\ header.err = ""
    /\ header.out[3] = 1
    /\ header.out[4] = 0
    /\ call_result[1].err = ""

\* the record that follows the header
SingleRecord(header) ==
    travel_time_parse_record(UnitData(call_input), Reader(header.pos), header.out[1]).out

\* the unit has link_count records, each the record parsed
ReplicatedToLinkCount(header) ==
    /\ Len(call_result[1].items) = header.out[5] * 256 + header.out[6]
    /\ \A i \in 1..Len(call_result[1].items) :
           call_result[1].items[i] = SingleRecord(header)

\* C21: for a 0x40 unit whose info_flag is single (and mode_flag is 0),
\* the decoder parses one record and replicates it so that the unit has
\* exactly link_count records, all equal to the parsed one.
C21_SingleRecordReplicated ==
    SingleRecordParsed(TravelTimeHeader) => ReplicatedToLinkCount(TravelTimeHeader)

\* the unit holds the one record parsed, whatever link_count is
C21_SingleRecordKeptOnce ==
    SingleRecordParsed(TravelTimeHeader) =>
        call_result[1].items = <<SingleRecord(TravelTimeHeader)>>

\* the kinds of the blocks are Start, End, then Via blocks
StartEndVia(blocks) ==
    \A j \in 1..Len(blocks) :
        blocks[j].kind = (IF j = 1 THEN "start" ELSE IF j = 2 THEN "end" ELSE "via")

\* the links a block stands for: a via block for itself and its
\* continuous_links
LinksOf(block) == IF block.kind = "via" THEN block.continuous_links[1] + 1 ELSE 1

LinksCovered(blocks) ==
    LET Body(acc, j) == acc + LinksOf(blocks[j])
    IN  ForRange(Body, 0, 1, Len(blocks))

\* the records a 0x41 decoder has returned
RestrictionRecordsReturned ==
    IF call_result # <<>> /\ call_input.decoder = "RestrictionAccidentDataUnit"
       /\ call_result[1].err = ""
    THEN 1..Len(call_result[1].items)
    ELSE {}

\* C22 as stated: for every 0x41 record that the decoder returns, the
\* number of basic-info blocks parsed equals the header's 6-bit link_count,
\* in the order Start, End, then Via blocks, also for link_count 0 and 1
\* and for Via blocks whose continuous_links field is non-zero.
C22_BlocksEqualLinkCount ==
    \A i \in RestrictionRecordsReturned :
        /\ Len(call_result[1].blocks[i]) = call_result[1].items[i][2]
        /\ StartEndVia(call_result[1].blocks[i])

\* C22 amended: the blocks are in the order Start, End, then Via blocks; a
\* record of link_count 0 has its Start block alone, and in a record of
\* link_count 1 or more the blocks stand for link_count links, a Via block
\* standing for 1 + continuous_links of them: the number of blocks equals
\* link_count when every continuous_links is 0.
C22_BlocksCoverLinkCount ==
    \A i \in RestrictionRecordsReturned :
        /\ StartEndVia(call_result[1].blocks[i])
        /\ call_result[1].items[i][2] = 0 => Len(call_result[1].blocks[i]) = 1
        /\ call_result[1].items[i][2] >= 1 =>
               LinksCovered(call_result[1].blocks[i]) = call_result[1].items[i][2]

\* a record of four links was returned with three blocks, its Via block
\* having continuous_links 1, after a record of no link
C22_Witness ==
    /\ RestrictionRecordsReturned = {1, 2}
    /\ call_result[1].items[1][2] = 0
    /\ call_result[1].items[2][2] = 4
    /\ Len(call_result[1].blocks[2]) = 3
    /\ call_result[1].blocks[2][3].continuous_links = <<1>>

\* the 0x43 decoder was given the segment with Ext-1 followed by these
\* alt-route groups and returned
AltGroupsDecoded(groups) ==
    /\ call_result # <<>>
    /\ call_input.decoder = "SectionTravelTimeDataUnit"
    /\ call_input.whole = Ext1Segment \o Flatten(groups)
    /\ call_input.cut = Len(call_input.whole)

\* alt_count of each group of the payload: the five first bits
AltCounts(groups) ==
    [j \in 1..Len(groups) |-> [alt_count |-> groups[j][1] \div 8,
                               routes |-> groups[j][1] \div 8]]

\* C23: for a 0x43 segment with ext_flag == BASIC_EXT1 whose primary route
\* is followed in the payload by alt-route groups, the parsed segment's
\* alt_route_groups contains those groups in order, each with alt_count
\* routes; the bytes of an alt-route group are never parsed as the header
\* of a new segment.
C23_AltGroupsParsed ==
    \A groups \in AltGroupLists :
        AltGroupsDecoded(groups) =>
            /\ call_result[1].err = ""
            /\ Len(call_result[1].items) = 1
            /\ call_result[1].blocks[1] = AltCounts(groups)
            /\ \A i \in 1..Len(call_result[1].log) :
                   call_result[1].log[i].loop = "records" =>
                       call_result[1].log[i].before < 8 * Len(Ext1Segment)

\* no segment that the decoder returns has an alt-route group
C23_NoAltGroupEverParsed ==
    (/\ call_result # <<>>
     /\ call_input.decoder = "SectionTravelTimeDataUnit") =>
        \A i \in 1..Len(call_result[1].blocks) : call_result[1].blocks[i] = <<>>

\* the bytes of the alt-route group were read as the header of a segment
C23_GroupReadAsSegment ==
    \A groups \in AltGroupLists :
        AltGroupsDecoded(groups) =>
            \E i \in 1..Len(call_result[1].log) :
                /\ call_result[1].log[i].loop = "records"
                /\ call_result[1].log[i].before = 8 * Len(Ext1Segment)

-----------------------------------------------------------------------------
(* Two pipelines *)

\* the decoders the pipeline reaches are as its own last push_bit left
\* them (as constructed, or as its own stream left them, before the first)
OwnState(p) == PipelineState(heap, pipelines[p]) = pipe_seen[p].state

\* C24: two DecoderPipeline instances are independent: pushing bits into
\* one instance never changes the state of another instance (its BIC
\* register, payload buffer, frame block buffer, L4 group buffers) nor the
\* records the other instance emits for its own bit stream.
C24_PipelinesIndependent == \A p \in Pipelines : OwnState(p)

\* every instance names the decoder objects of the class, so at all times
\* the two pipelines are in one and the same state
C24_PipelinesShareDecoders ==
    \A p \in Pipelines, q \in Pipelines :
        /\ pipelines[p] = pipelines[q]
        /\ PipelineState(heap, pipelines[p]) = PipelineState(heap, pipelines[q])

\* a bit pushed into the first pipeline changed the BIC register of the
\* second, into which nothing was pushed
C24_OtherRegisterChanged ==
    /\ pipe_sent["second"] = 0
    /\ pipe_sent["first"] = 1
    /\ PipelineState(heap, pipelines["second"]).l2_block.current_bic
           # pipe_seen["second"].state.l2_block.current_bic

-----------------------------------------------------------------------------
(* ParkingStore under concurrent calls *)

\* thread t has returned from a call of to_geojson
GeojsonReturned(t) == threads[t].method = "to_geojson" /\ threads[t].pc = "idle"

\* every feature is a whole entry: its id is the key of its coordinates
WholeFeatures(fs) ==
    \A i \in 1..Len(fs) :
        /\ fs[i].id = store_key(fs[i].coordinates[2], fs[i].coordinates[1])
        /\ \A j \in 1..Len(fs) : fs[i].id = fs[j].id => i = j

\* C25: under any interleaving of concurrent ParkingStore.upsert and
\* ParkingStore.to_geojson calls, every mutation of the internal map
\* happens while the store's lock is held, and the feature list returned
\* by each to_geojson call is exactly the set of entries present at one
\* single instant during that call (one feature per key, never a partially
\* applied upsert).
C25_LockedMutationsWholeSnapshots ==
    \A t \in Threads :
        /\ threads[t].locked
        /\ GeojsonReturned(t) =>
               /\ \E data \in threads[t].instants : threads[t].returned = features(data)
               /\ WholeFeatures(threads[t].returned)

\* a to_geojson call returned two features, and the map was changed by
\* an upsert between its call and its return
C25_Witness ==
    \E t \in Threads :
        /\ GeojsonReturned(t)
        /\ Len(threads[t].returned) = 2
        /\ Cardinality(threads[t].instants) >= 2

\* thread t holds the generator iter(store) returned, or has exhausted it
Iterating(t) ==
    threads[t].method = "__iter__" /\ threads[t].pc \in {"unlocked", "idle"}

\* the records of the entries of a dict, in order
store_records(data) == [i \in 1..Len(data) |-> data[i].record] \o <<>>

\* C30: iterating a ParkingStore (its __iter__) while another thread calls
\* upsert is safe: the internal dictionary is never read outside the lock,
\* so the iteration yields the records of one point-in-time snapshot and
\* is unaffected by an upsert that adds a key during the iteration.
C30_IterationIsSnapshot ==
    \A t \in Threads :
        Iterating(t) =>
            /\ threads[t].raised = "none"
            /\ threads[t].returned =
                   SubSeq(store_records(threads[t].snapshot), 1, Len(threads[t].returned))
            /\ threads[t].pc = "idle" =>
                   Len(threads[t].returned) = Len(threads[t].snapshot)

\* an upsert added a key while the generator was being iterated, and the
\* next step of the iteration raised RuntimeError
C30_IterationRaised ==
    \E t \in Threads :
        /\ Iterating(t)
        /\ threads[t].raised = "RuntimeError"
        /\ Len(threads[t].returned) = 1
        /\ Len(store_data) = 2

\* an upsert replaced a record while the generator was being iterated,
\* and the iteration gave the new record, not that of the snapshot
C30_IterationSawLaterRecord ==
    \E t \in Threads :
        /\ Iterating(t)
        /\ threads[t].raised = "none"
        /\ Len(threads[t].returned) = 1
        /\ threads[t].returned[1] # threads[t].snapshot[1].record

-----------------------------------------------------------------------------
(* The rows of a frame *)

\* the block accepted at this place of a frame is not a BIC_4 block
InformationPlace(p) == get_expected_bic(p) # BIC_4

\* the places of the blocks of a frame that are not BIC_4 blocks, in push
\* order
InformationPlaces == SelectSeq([p \in 1..FRAME_SIZE |-> p], InformationPlace)

\* C26: when the 272 blocks come from an L2BlockDecoder (a block is a
\* parity block exactly when its BIC is BIC_4), every frame emitted by the
\* frame decoder has exactly 190 information blocks, and blocks[i] is
\* derived from the i-th non-BIC_4 block in push order and keeps that
\* block's block_id (BIC_1, BIC_2 or BIC_3); the 82 parity blocks never
\* appear in the frame.
C26_FrameRowsAreInformationBlocks ==
    frame_result.status = "frame" =>
        /\ Len(frame_result.blocks) = L2_DATA_BLOCK_SIZE
        /\ frame_rows = InformationPlaces
        /\ FRAME_SIZE - Len(InformationPlaces) = FRAME_SIZE - L2_DATA_BLOCK_SIZE
        /\ \A i \in 1..Len(frame_result.blocks) :
               /\ frame_result.blocks[i].kind = "information"
               /\ frame_result.blocks[i].block_id = get_expected_bic(frame_rows[i])
               /\ frame_result.blocks[i].block_id \in {BIC_1, BIC_2, BIC_3}

\* a frame was emitted on a BIC_4 block, and its last row is the block
\* pushed before that one
C26_Witness ==
    /\ frame_result.status = "frame"
    /\ pushed_block = ParityBlock(BIC_4)
    /\ Len(frame_rows) = L2_DATA_BLOCK_SIZE
    /\ frame_rows[L2_DATA_BLOCK_SIZE] = FRAME_SIZE - 1

-----------------------------------------------------------------------------
(* The BIC candidates of a register value *)

\* the BICs within the threshold of the register
BicsWithin(bic_register, errors) ==
    {bic \in {BIC_1, BIC_2, BIC_3, BIC_4} : BitDistance(bic, bic_register) <= errors}

\* C27: for every allowable_bic_errors value from 0 to 4, in particular
\* the default 2, no 16-bit register value lies within the threshold of
\* two different BIC candidates, so the tie-break order never decides
\* which BIC is detected; and the reset register value 0x0000 is not
\* within the default threshold of any BIC, so a freshly reset decoder is
\* always in the BIC-search phase.
C27_AtMostOneBicCandidate ==
    LET within == BicsWithin(current_bic, allowable_bic_errors)
    IN  /\ allowable_bic_errors <= 4 =>
               /\ Cardinality(within) <= 1
               /\ bic_detected # <<>> =>
                      /\ within = {} => bic_detected[1] = NoBic
                      /\ \A bic \in within : bic_detected[1] = bic
        /\ current_bic = block_reset(DecoderNow).current_bic
               /\ allowable_bic_errors = DEFAULT_BIC_ERROR_TOLERANCE
           => /\ within = {}
              /\ bic_detected # <<>> => bic_detected[1] = NoBic

\* with four errors allowed, a register four bits away from BIC_3 was
\* detected as BIC_3
C27_Witness ==
    /\ allowable_bic_errors = 4
    /\ BitDistance(current_bic, BIC_3) = 4
    /\ bic_detected = <<BIC_3>>

\* the register of a reset decoder with the default threshold: no BIC
C27_ResetSearches ==
    /\ current_bic = 0
    /\ allowable_bic_errors = DEFAULT_BIC_ERROR_TOLERANCE
    /\ bic_detected = <<NoBic>>

-----------------------------------------------------------------------------
(* From the detection of a BIC to the block *)

\* the call of this step was given a bit, 0 or 1
ValidBitPushed == last_input'.type = "int" /\ last_input'.val \in {0, 1}

\* the call of this step returned a block
BlockReturned == block_result'.kind \in {"information", "parity"}

\* C28: once the block decoder has detected a BIC, further bits never
\* change the BIC register until the block is emitted: the block is
\* returned by exactly the 272nd valid bit pushed after the bit that
\* completed the detection, its block_id is the BIC that was detected, a
\* non-empty data buffer implies a detected BIC, and between calls the
\* data buffer always holds fewer than 272 bits.
C28_DetectedBicHeldUntilBlock ==
    [][/\ ~Searching /\ ~BlockReturned => current_bic' = current_bic
       /\ ~Searching /\ ValidBitPushed /\ ~BlockReturned =>
              data_buffer' = Append(data_buffer, data_buffer'[Len(data_buffer')])
       /\ ~ValidBitPushed => data_buffer' = data_buffer /\ ~BlockReturned
       /\ Searching => data_buffer' = <<>> /\ ~BlockReturned
       /\ BlockReturned <=>
              ~Searching /\ ValidBitPushed /\ Len(data_buffer) = BLOCK_SIZE - 1
       /\ BlockReturned =>
              /\ block_result'.block_id = detected_bic(current_bic, allowable_bic_errors)
              /\ data_buffer' = <<>>
       /\ data_buffer # <<>> => ~Searching
       /\ data_buffer' # <<>> => detected_bic(current_bic', allowable_bic_errors) # NoBic
       /\ Len(data_buffer) < BLOCK_SIZE
       /\ Len(data_buffer') < BLOCK_SIZE]_vars

\* the last line transmitted was a BIC_4 line, and its last bit has
\* returned the parity block
C28_Witness ==
    /\ tx_count = MaxBlocks
    /\ tx_pos = LINE_SIZE
    /\ block_result.kind = "parity"
    /\ block_result.block_id = BIC_4
    /\ data_buffer = <<>>
    /\ last_input.type = "int"

-----------------------------------------------------------------------------
(* Failures inside the pipeline *)

\* the groups the L4 decoder returned to the last push_bit of pipeline p
\* are as many as the pairs it yielded: none was lost to an exception
\* that ended the generator
AllGroupsYielded(p) == pipe_result[p].raised = "none"

\* C29: for any input bit sequence, fully iterating
\* decoder_core.DecoderPipeline.push_bit(bit) for each bit never raises: a
\* failure while building one frame (an uncorrectable column) or while
\* decoding one data group (for example a Comp-1 payload shorter than the
\* 2-byte header, or an invalid information separator) is confined to
\* that frame or group, the remaining groups of the same frame are still
\* yielded, and later bits are still decoded.
C29_PushBitNeverRaises == \A p \in Pipelines : AllGroupsYielded(p)

\* the bit that completed a frame with an uncorrectable column raised
\* ValueError out of push_bit
C29_FrameFailureRaised ==
    \E p \in Pipelines :
        /\ pipe_result[p].raised = "ValueError"
        /\ heap[pipelines[p].l2_frame] = <<>>

\* a group too short for its header raised ReadError out of push_bit
\* after an earlier group of the same frame had been yielded
C29_GroupFailureRaised ==
    \E p \in Pipelines :
        /\ pipe_result[p].raised = "ReadError"
        /\ Len(pipe_result[p].yielded) = 1

\* a group whose first two bytes are no data header is yielded with no
\* header, and the group after it is yielded too
C29_InvalidHeaderConfined ==
    \E p \in Pipelines :
        /\ pipe_result[p].raised = "none"
        /\ Len(pipe_result[p].yielded) = 2
        /\ pipe_result[p].yielded[1].evt.header = <<>>
        /\ pipe_result[p].yielded[2].evt.header # <<>>

=============================================================================
